---- MODULE Spec2Model ----
(***************************************************************************)
(* Verification model of bluefunda/llm-router.                             *)
(*                                                                         *)
(*   Spec        package llmrouter: the Router (registry, model map,       *)
(*               middleware list, resolveProvider, buildChain, Complete,   *)
(*               Route/Stream) over opaque Middleware values.              *)
(*   SpecRetry   package middleware: retryProvider.Complete / Stream.      *)
(*   SpecStream  the streaming pipeline: an adapter's producer goroutine,  *)
(*               the timeout wrapper's forwarding goroutine, the consumer. *)
(*   SpecBreaker package middleware: circuitBreakerProvider.Complete /     *)
(*               Stream over the breaker NewCircuitBreakerMiddleware sets  *)
(*               up.                                                       *)
(*   SpecClassify  package llmrouter: IsRetryable on one error value.      *)
(*   SpecLock    goroutines calling Complete / Stream and the mutating     *)
(*               methods of one Router, with Router.mu.                    *)
(*   SpecBackoff package middleware: retryProvider.calculateBackoff on     *)
(*               one configuration and attempt number.                     *)
(*   SpecHistory package gemini: convertHistory on one message list.       *)
(***************************************************************************)
EXTENDS Integers, Sequences, FiniteSets, TLC

VARIABLES
    \* ---- Router (src/unnamed/part_004) ----
    constructed,   \* FALSE while New() is still applying options
    providers,     \* Router.providers : registered name -> Provider
    modelMap,      \* Router.modelMap  : model -> provider name
    fallbacks,     \* Router.fallbacks
    middleware,    \* Router.middleware, in registration order
    rPhase,        \* position of the one Router call: idle/down/provider/up/done
    rOp,           \* "Complete" or "Stream"
    rModel,        \* req.Model of the call
    rCtx,          \* the ctx of the call, as it is when the call is made
    rTarget,       \* what resolveProvider returned (key and provider)
    rHandler,      \* what buildChain returned: the layers, outermost first
    rLvl,          \* layer the call is in (1 = outermost)
    rTrace,        \* layers entered and left by the call, in order
    rResult        \* what the call returned to the caller

routerVars == <<constructed, providers, modelMap, fallbacks, middleware,
                rPhase, rOp, rModel, rCtx, rTarget, rHandler, rLvl, rTrace, rResult>>

VARIABLES
    \* ---- retry wrapper (src/unnamed/part_005) ----
    tMax,          \* retryProvider.maxAttempts
    tBase,         \* retryProvider.baseDelay
    tMaxDelay,     \* retryProvider.maxDelay
    tClassifier,   \* retryProvider.retryable: which function it is
    tTimeout,      \* where a timeout wrapper sits: none / outer (around retry) / inner
    tGoarch,       \* the architecture the program was built for
    tOp,           \* "Complete" or "Stream"
    tPhase,        \* idle / head (loop condition) / sleep / call / done
    tAttempt,      \* the loop variable attempt
    tLastErr,      \* lastErr
    tCalls,        \* error returned by each call of the wrapped provider (Nil = success)
    tSleeps,       \* the backoff delays waited out so far
    tCtx,          \* the call's context: live / canceled / deadline
    tCtxDoneIn,    \* the phase the wrapper was in when that context became done
    tResult,       \* what the wrapper returned
    tAttemptCtx,   \* the ctx of the attempt, when timeoutProvider made one for it
    tStarts        \* for each attempt started: the ctx it was given, and its state then

retryVars == <<tMax, tBase, tMaxDelay, tClassifier, tTimeout, tGoarch, tOp, tPhase, tAttempt,
               tLastErr, tCalls, tSleeps, tCtx, tCtxDoneIn, tResult, tAttemptCtx,
               tStarts>>

VARIABLES
    \* ---- one stream: adapter goroutine, timeout goroutine, consumer ----
    sKind,         \* the adapter: chat / messages / generative
    sChain,        \* the middleware kinds around it, outermost first
    sCtx,          \* the context the goroutines see: live / canceled / deadline
    bProto,        \* where the backend is in its own protocol
    bCount,        \* backend events produced so far
    pPc,           \* adapter goroutine: idle / run / send / sendlast / closing / closed
    pPending,      \* events the adapter goroutine still has to send for this step
    pAcc,          \* the adapter goroutine's local variables
    fPc,           \* timeout goroutine: none / select / fwd / errsend / closed
    fEv,           \* the event the timeout goroutine holds
    fGot,          \* events the timeout goroutine received from the inner channel
    delivered,     \* events the consumer received, in order
    cClosed,       \* the consumer has seen its channel closed
    cGone          \* the consumer has stopped receiving

streamVars == <<sKind, sChain, sCtx, bProto, bCount, pPc, pPending, pAcc,
                fPc, fEv, fGot, delivered, cClosed, cGone>>

VARIABLES
    \* ---- circuit breaker wrapper (src/middleware/circuitbreaker.go) ----
    cbMaxFailures, \* maxFailures given to NewCircuitBreakerMiddleware
    cb,            \* m.cb: the one gobreaker.CircuitBreaker of the middleware
    cbCalls,       \* the calls that are inside cb.Execute: slot -> call
    cbLast,        \* the call that returned last, as its caller saw it
    cbSeen         \* what the callers have seen so far, summed up

breakerVars == <<cbMaxFailures, cb, cbCalls, cbLast, cbSeen>>

VARIABLES
    \* ---- one call of a function that keeps no state ----
    fn,            \* the function that was called ("" before the call)
    argv,          \* its argument
    retv           \* what it returned

callOfVars == <<fn, argv, retv>>

VARIABLES
    \* ---- goroutines sharing one Router (src/unnamed/part_004) ----
    mu,            \* Router.mu: the goroutines holding it shared, and the one holding it exclusively
    gPc,           \* goroutine -> where it is in its Router method
    gField         \* goroutine -> the Router fields it is reading or writing there

lockVars == <<mu, gPc, gField>>

nonRouterVars == <<retryVars, streamVars, breakerVars, callOfVars, lockVars>>
nonRetryVars == <<routerVars, streamVars, breakerVars, callOfVars, lockVars>>
nonStreamVars == <<routerVars, retryVars, breakerVars, callOfVars, lockVars>>
nonBreakerVars == <<routerVars, retryVars, streamVars, callOfVars, lockVars>>
nonCallOfVars == <<routerVars, retryVars, streamVars, breakerVars, lockVars>>
nonLockVars == <<routerVars, retryVars, streamVars, breakerVars, callOfVars>>

vars == <<routerVars, retryVars, streamVars, breakerVars, callOfVars, lockVars>>

-----------------------------------------------------------------------------
(* Bounds of the model *)

MaxMw == 2          \* longest middleware list
MaxAttempts == 3    \* largest maxAttempts given to NewRetryMiddleware
MaxChunks == 3      \* most chunks / responses of a Chat or GenerativeChat backend stream
MaxMsgEvents == 6   \* most events of a Messages backend stream
MaxThreshold == 2   \* largest maxFailures given to NewCircuitBreakerMiddleware
MaxBreakerCalls == 4 \* most calls made through one circuit breaker
MaxInFlight == 2     \* most calls inside the wrapped provider at once
MaxRetryEvents == 2  \* most events followed on a stream the retry wrapper returned
MaxMsgs == 3         \* longest Request.Messages given to convertHistory
MaxBackoffAttempts == 33 \* largest maxAttempts whose backoff delays are computed

\* GOARCH values of the builds looked at
GoArchs == {"amd64", "arm64"}

(* Program constants *)
DefaultMaxDelay == 30   \* maxDelay set by NewRetryMiddleware, in seconds

\* time.Duration is a signed integer.  The code's is 64 bits of nanoseconds; the
\* model's is 32 bits of seconds, so that a product goes out of range three
\* doublings earlier here than there.
MaxDuration == 2147483647
MinDuration == (-MaxDuration) - 1

-----------------------------------------------------------------------------
(* Errors (src/errors.go).  An error value is a record:                    *)
(*   w      the sentinel the value is or wraps with %w ("" if none)        *)
(*   api    TRUE for *APIError                                             *)
(*   status APIError.StatusCode                                            *)
(*   cause  APIError.Err: a sentinel name, or "raw" for the backend error  *)
(*   msg    Error(): the text, as a sequence of pieces                     *)

Nil == [w |-> "", api |-> FALSE, status |-> 0, cause |-> "", msg |-> <<>>]

Sentinel(name) ==
    [w |-> name, api |-> FALSE, status |-> 0, cause |-> "", msg |-> <<name>>]

ErrUnknownModel     == Sentinel("ErrUnknownModel")
ErrUnknownProvider  == Sentinel("ErrUnknownProvider")
ErrNoProviders      == Sentinel("ErrNoProviders")
ErrRateLimited      == Sentinel("ErrRateLimited")
ErrContextCanceled  == Sentinel("ErrContextCanceled")
ErrInvalidRequest   == Sentinel("ErrInvalidRequest")
ErrAuthFailed       == Sentinel("ErrAuthFailed")
ErrProviderError    == Sentinel("ErrProviderError")
ErrCircuitOpen      == Sentinel("ErrCircuitOpen")
ErrMaxRetriesExceed == Sentinel("ErrMaxRetriesExceed")

\* fmt.Errorf("%w: %v", sentinel, x): wraps the sentinel, only prints x
Errorf(sentinel, text) ==
    [w |-> sentinel.w, api |-> FALSE, status |-> 0, cause |-> "",
     msg |-> sentinel.msg \o text]

\* errors.Is(e, sentinel): the value itself, what %w wraps, or APIError.Unwrap
ErrorsIs(e, sentinel) ==
    /\ e # Nil
    /\ \/ e.w = sentinel.w
       \/ e.api /\ e.cause = sentinel.w

-----------------------------------------------------------------------------
(* Providers: the three adapters.  A provider value carries what New() kept *)
(* of its configuration.                                                    *)

\* p.model of every adapter in this model: the configured default model
DefaultModel == "default-model"

ChatP == [kind |-> "chat", name |-> "openai", models |-> <<"gpt", "anthropic">>,
          model |-> DefaultModel]
MessagesP == [kind |-> "messages", name |-> "", models |-> <<"gpt">>,
              model |-> DefaultModel]
GenerativeP == [kind |-> "generative", name |-> "", models |-> <<>>,
                model |-> DefaultModel]

Instances == {ChatP, MessagesP, GenerativeP}

\* Provider.Name() of each adapter
Name(p) ==
    CASE p.kind = "chat"       -> p.name
      [] p.kind = "messages"   -> "anthropic"
      [] p.kind = "generative" -> "gemini"

\* Provider.Models()
Models(p) == p.models

\* A backend failure, as the SDK reports it: typed is TRUE for *openai.Error /
\* *anthropic.Error (which carry the HTTP status), FALSE for any other error.
BackendErrors ==
    {[typed |-> TRUE, status |-> 429], [typed |-> TRUE, status |-> 401],
     [typed |-> TRUE, status |-> 400], [typed |-> TRUE, status |-> 500],
     [typed |-> FALSE, status |-> 0]}

SentinelOfStatus(status) ==
    CASE status \in {401, 403} -> "ErrAuthFailed"
      [] status = 429          -> "ErrRateLimited"
      [] status = 400          -> "ErrInvalidRequest"
      [] OTHER                 -> "raw"

\* wrapError of the Chat adapter and of the Messages adapter
wrapErrorTyped(provider, berr) ==
    [w |-> "", api |-> TRUE,
     status |-> IF berr.typed THEN berr.status ELSE 0,
     cause |-> IF berr.typed THEN SentinelOfStatus(berr.status) ELSE "raw",
     msg |-> <<provider, "backend">>
             \o <<IF berr.typed THEN SentinelOfStatus(berr.status) ELSE "raw">>]

\* wrapError of the GenerativeChat adapter: no status, the raw error as cause
wrapErrorGenerative(berr) ==
    [w |-> "", api |-> TRUE, status |-> 0, cause |-> "raw",
     msg |-> <<"gemini", "backend", "raw">>]

wrapError(p, berr) ==
    CASE p.kind = "chat"       -> wrapErrorTyped(p.name, berr)
      [] p.kind = "messages"   -> wrapErrorTyped("anthropic", berr)
      [] p.kind = "generative" -> wrapErrorGenerative(berr)

-----------------------------------------------------------------------------
(* Router (src/unnamed/part_004, src/unnamed/part_000) *)

RegNames  == {"anthropic", "openai"}          \* names providers are registered under
ReqModels == {"anthropic", "openai", "gpt"}   \* model strings of requests
MapKeys   == {"anthropic", "gpt"}             \* models given to MapModel
MwIds     == {"m1", "m2"}                     \* Middleware values
FallbackLists == {<<"openai">>, <<"anthropic", "openai">>}

NoProvider == [kind |-> "none", name |-> "", models |-> <<>>, model |-> ""]
ProviderLayer == "@provider"
NoResponse == [provider |-> ""]
\* a result: berr holds the error the backend answered with, if it did, and
\* sent the model name the adapter put into its backend request, if it made one
NoResult == [err |-> Nil, resp |-> NoResponse, ch |-> FALSE, berr |-> <<>>, sent |-> <<>>]

Found(k)  == [key |-> k, p |-> providers[k], err |-> Nil]
Failed(e) == [key |-> "", p |-> NoProvider, err |-> e]

Declares(p, M) == \E i \in 1..Len(Models(p)) : Models(p)[i] = M

\* resolveProvider that fails when the model map names an unregistered provider
resolveProviderStrictMap(M) ==
    IF DOMAIN providers = {} THEN {Failed(ErrNoProviders)}
    ELSE IF M \in DOMAIN modelMap
         THEN (IF modelMap[M] \in DOMAIN providers THEN {Found(modelMap[M])}
               ELSE {Failed(Errorf(ErrUnknownProvider, <<modelMap[M]>>))})
    ELSE IF M \in DOMAIN providers THEN {Found(M)}
    ELSE IF \E k \in DOMAIN providers : Declares(providers[k], M)
         THEN {Found(k) : k \in {j \in DOMAIN providers : Declares(providers[j], M)}}
    ELSE {Failed(Errorf(ErrUnknownModel, <<M>>))}

\* resolveProvider that turns to the fallback list when nothing matches
resolveProviderFallback(M) ==
    IF DOMAIN providers = {} THEN {Failed(ErrNoProviders)}
    ELSE IF M \in DOMAIN modelMap /\ modelMap[M] \in DOMAIN providers
         THEN {Found(modelMap[M])}
    ELSE IF M \in DOMAIN providers THEN {Found(M)}
    ELSE IF \E k \in DOMAIN providers : Declares(providers[k], M)
         THEN {Found(k) : k \in {j \in DOMAIN providers : Declares(providers[j], M)}}
    ELSE IF \E i \in 1..Len(fallbacks) : fallbacks[i] \in DOMAIN providers
         THEN {Found(fallbacks[CHOOSE i \in 1..Len(fallbacks) :
                                  /\ fallbacks[i] \in DOMAIN providers
                                  /\ \A j \in 1..(i - 1) : fallbacks[j] \notin DOMAIN providers])}
    ELSE {Failed(Errorf(ErrUnknownModel, <<M>>))}

\* resolveProvider with step 3 (provider name) tried before step 2 (model map)
resolveProviderNameFirst(M) ==
    IF DOMAIN providers = {} THEN {Failed(ErrNoProviders)}
    ELSE IF M \in DOMAIN providers THEN {Found(M)}
    ELSE IF M \in DOMAIN modelMap /\ modelMap[M] \in DOMAIN providers
         THEN {Found(modelMap[M])}
    ELSE IF \E k \in DOMAIN providers : Declares(providers[k], M)
         THEN {Found(k) : k \in {j \in DOMAIN providers : Declares(providers[j], M)}}
    ELSE {Failed(Errorf(ErrUnknownModel, <<M>>))}

\* resolveProvider that takes the first registered provider when nothing matches
resolveProviderDefault(M) ==
    IF DOMAIN providers = {} THEN {Failed(ErrNoProviders)}
    ELSE IF M \in DOMAIN modelMap /\ modelMap[M] \in DOMAIN providers
         THEN {Found(modelMap[M])}
    ELSE IF M \in DOMAIN providers THEN {Found(M)}
    ELSE IF \E k \in DOMAIN providers : Declares(providers[k], M)
         THEN {Found(k) : k \in {j \in DOMAIN providers : Declares(providers[j], M)}}
    ELSE {Found(k) : k \in DOMAIN providers}

\* resolveProvider without the empty-registry check
resolveProviderNoEmptyCheck(M) ==
    IF M \in DOMAIN modelMap /\ modelMap[M] \in DOMAIN providers
         THEN {Found(modelMap[M])}
    ELSE IF M \in DOMAIN providers THEN {Found(M)}
    ELSE IF \E k \in DOMAIN providers : Declares(providers[k], M)
         THEN {Found(k) : k \in {j \in DOMAIN providers : Declares(providers[j], M)}}
    ELSE {Failed(Errorf(ErrUnknownModel, <<M>>))}

\* Router.resolveProvider: the set of results it can return (the scan of step 4
\* ranges over a Go map, so any declaring provider can be the first match)
resolveProvider(M) ==
    IF DOMAIN providers = {} THEN {Failed(ErrNoProviders)}
    ELSE IF M \in DOMAIN modelMap /\ modelMap[M] \in DOMAIN providers
         THEN {Found(modelMap[M])}
    ELSE IF M \in DOMAIN providers THEN {Found(M)}
    ELSE IF \E k \in DOMAIN providers : Declares(providers[k], M)
         THEN {Found(k) : k \in {j \in DOMAIN providers : Declares(providers[j], M)}}
    ELSE {Failed(Errorf(ErrUnknownModel, <<M>>))}

\* Middleware.Wrap: the wrapper is the new outermost layer of the handler
Wrap(m, next) == <<m>> \o next

RECURSIVE wrapLoop(_, _)
wrapLoop(i, result) ==
    IF i < 1 THEN result ELSE wrapLoop(i - 1, Wrap(middleware[i], result))

RECURSIVE wrapLoopForward(_, _)
wrapLoopForward(i, result) ==
    IF i > Len(middleware) THEN result
    ELSE wrapLoopForward(i + 1, Wrap(middleware[i], result))

\* buildChain with the loop running from the first middleware to the last
buildChainForward(provider) == wrapLoopForward(1, provider)

\* Router.buildChain: wraps from the last middleware to the first
buildChain(provider) == wrapLoop(Len(middleware), provider)

Put(f, k, v) == [x \in DOMAIN f \cup {k} |-> IF x = k THEN v ELSE f[x]]

callVars == <<rPhase, rOp, rModel, rCtx, rTarget, rHandler, rLvl, rTrace, rResult>>
confVars == <<providers, modelMap, fallbacks, middleware>>

\* ---- options applied by New (src/unnamed/part_000) ----
WithProvider(name, p) ==
    /\ ~constructed
    /\ providers' = Put(providers, name, p)
    /\ UNCHANGED <<constructed, modelMap, fallbacks, middleware, callVars>>
    /\ UNCHANGED nonRouterVars

WithModelMapping(model, provider) ==
    /\ ~constructed
    /\ modelMap' = Put(modelMap, model, provider)
    /\ UNCHANGED <<constructed, providers, fallbacks, middleware, callVars>>
    /\ UNCHANGED nonRouterVars

WithFallback(names) ==
    /\ ~constructed
    /\ fallbacks' = names
    /\ UNCHANGED <<constructed, providers, modelMap, middleware, callVars>>
    /\ UNCHANGED nonRouterVars

WithMiddleware(ms) ==
    /\ ~constructed
    /\ Len(middleware) + Len(ms) <= MaxMw
    /\ middleware' = middleware \o ms
    /\ UNCHANGED <<constructed, providers, modelMap, fallbacks, callVars>>
    /\ UNCHANGED nonRouterVars

\* New returns the router
New ==
    /\ ~constructed
    /\ constructed' = TRUE
    /\ UNCHANGED <<confVars, callVars>>
    /\ UNCHANGED nonRouterVars

\* ---- mutators of a constructed router ----
RegisterProvider(name, p) ==
    /\ constructed /\ rPhase = "idle"
    /\ providers' = Put(providers, name, p)
    /\ UNCHANGED <<constructed, modelMap, fallbacks, middleware, callVars>>
    /\ UNCHANGED nonRouterVars

MapModel(model, provider) ==
    /\ constructed /\ rPhase = "idle"
    /\ modelMap' = Put(modelMap, model, provider)
    /\ UNCHANGED <<constructed, providers, fallbacks, middleware, callVars>>
    /\ UNCHANGED nonRouterVars

SetFallbacks(names) ==
    /\ constructed /\ rPhase = "idle"
    /\ fallbacks' = names
    /\ UNCHANGED <<constructed, providers, modelMap, middleware, callVars>>
    /\ UNCHANGED nonRouterVars

AddMiddleware(m) ==
    /\ constructed /\ rPhase = "idle"
    /\ Len(middleware) < MaxMw
    /\ middleware' = Append(middleware, m)
    /\ UNCHANGED <<constructed, providers, modelMap, fallbacks, callVars>>
    /\ UNCHANGED nonRouterVars

\* ---- one call of Router.Complete or Router.Route/Stream ----
\* resolveProvider, then buildChain; the handler is entered in the next steps
RouterCall(op, M, ctx) ==
    /\ constructed /\ rPhase = "idle"
    /\ rOp' = op /\ rModel' = M /\ rCtx' = ctx /\ rTrace' = <<>>
    /\ \E t \in resolveProvider(M) :
         /\ rTarget' = t
         /\ IF t.err # Nil
            THEN /\ rPhase' = "done"
                 /\ rResult' = [NoResult EXCEPT !.err = t.err]
                 /\ rHandler' = <<>> /\ rLvl' = 0
            ELSE /\ rPhase' = "down"
                 /\ rHandler' = buildChain(<<ProviderLayer>>)
                 /\ rLvl' = 1 /\ rResult' = NoResult
    /\ UNCHANGED <<constructed, confVars>>
    /\ UNCHANGED nonRouterVars

\* the call enters a middleware layer, which calls the layer it wraps
EnterLayer ==
    /\ rPhase = "down" /\ rHandler[rLvl] # ProviderLayer
    /\ rTrace' = Append(rTrace, <<"enter", rHandler[rLvl]>>)
    /\ rLvl' = rLvl + 1
    /\ UNCHANGED <<constructed, confVars, rPhase, rOp, rModel, rCtx, rTarget, rHandler, rResult>>
    /\ UNCHANGED nonRouterVars

\* what the backend call of an adapter can end with under ctx: the adapters
\* hand ctx to the client without looking at it, and the client gives up on a
\* cancelled ctx with an error of its own (not a typed API error)
BackendOutcomes(ctx) ==
    IF ctx = "live" THEN {<<>>} \cup {<<b>> : b \in BackendErrors}
    ELSE {<<[typed |-> FALSE, status |-> 0]>>}

\* the model name an adapter's Complete and Stream put into the backend request
\* for req.Model = M: the Chat adapter replaces "" and p.name, the Messages
\* adapter "" and "anthropic", the GenerativeChat adapter "" alone
backendModel(p, M) ==
    CASE p.kind = "chat" -> IF M = "" \/ M = p.name THEN p.model ELSE M
      [] p.kind = "messages" -> IF M = "" \/ M = "anthropic" THEN p.model ELSE M
      [] p.kind = "generative" -> IF M = "" THEN p.model ELSE M

\* the resolved adapter's Complete: a Response naming p.Name(), or wrapError
ProviderComplete ==
    /\ rPhase = "down" /\ rHandler[rLvl] = ProviderLayer /\ rOp = "Complete"
    /\ rTrace' = Append(rTrace, <<"provider", rTarget.key>>)
    /\ \E o \in BackendOutcomes(rCtx) :
         rResult' = IF o = <<>>
                    THEN [NoResult EXCEPT !.resp = [provider |-> Name(rTarget.p)],
                                          !.sent = <<backendModel(rTarget.p, rModel)>>]
                    ELSE [NoResult EXCEPT !.err = wrapError(rTarget.p, o[1]), !.berr = o,
                                          !.sent = <<backendModel(rTarget.p, rModel)>>]
    /\ rPhase' = "up" /\ rLvl' = rLvl - 1
    /\ UNCHANGED <<constructed, confVars, rOp, rModel, rCtx, rTarget, rHandler>>
    /\ UNCHANGED nonRouterVars

\* the resolved adapter's Stream: always a channel and a nil error; resp is the
\* Response of the Done event the channel carries when the stream ends in Done
ProviderStream ==
    /\ rPhase = "down" /\ rHandler[rLvl] = ProviderLayer /\ rOp = "Stream"
    /\ rTrace' = Append(rTrace, <<"provider", rTarget.key>>)
    /\ rResult' = [NoResult EXCEPT !.resp = [provider |-> Name(rTarget.p)], !.ch = TRUE,
                                   !.sent = <<backendModel(rTarget.p, rModel)>>]
    /\ rPhase' = "up" /\ rLvl' = rLvl - 1
    /\ UNCHANGED <<constructed, confVars, rOp, rModel, rCtx, rTarget, rHandler>>
    /\ UNCHANGED nonRouterVars

\* the result passes back through a middleware layer
LeaveLayer ==
    /\ rPhase = "up" /\ rLvl >= 1
    /\ rTrace' = Append(rTrace, <<"exit", rHandler[rLvl]>>)
    /\ rLvl' = rLvl - 1
    /\ UNCHANGED <<constructed, confVars, rPhase, rOp, rModel, rCtx, rTarget, rHandler, rResult>>
    /\ UNCHANGED nonRouterVars

\* the outermost layer returns to the caller
RouterReturn ==
    /\ rPhase = "up" /\ rLvl = 0
    /\ rPhase' = "done"
    /\ UNCHANGED <<constructed, confVars, rOp, rModel, rCtx, rTarget, rHandler, rLvl, rTrace,
                   rResult>>
    /\ UNCHANGED nonRouterVars

\* the caller is done with the result; the router is free for the next call
RouterIdle ==
    /\ rPhase = "done"
    /\ rPhase' = "idle" /\ rOp' = "" /\ rModel' = "" /\ rCtx' = "live"
    /\ rTarget' = Failed(Nil)
    /\ rHandler' = <<>> /\ rLvl' = 0 /\ rTrace' = <<>> /\ rResult' = NoResult
    /\ UNCHANGED <<constructed, confVars>>
    /\ UNCHANGED nonRouterVars

RouterInit ==
    /\ constructed = FALSE
    /\ providers = <<>> /\ modelMap = <<>> /\ fallbacks = <<>> /\ middleware = <<>>
    /\ rPhase = "idle" /\ rOp = "" /\ rModel = "" /\ rCtx = "live" /\ rTarget = Failed(Nil)
    /\ rHandler = <<>> /\ rLvl = 0 /\ rTrace = <<>> /\ rResult = NoResult

MwLists == {<<m>> : m \in MwIds} \cup {<<a, b>> : a \in MwIds, b \in MwIds}

RouterNext ==
    \/ \E n \in RegNames, p \in Instances : WithProvider(n, p)
    \/ \E m \in MapKeys, n \in RegNames : WithModelMapping(m, n)
    \/ \E f \in FallbackLists : WithFallback(f)
    \/ \E ms \in MwLists : WithMiddleware(ms)
    \/ New
    \/ \E n \in RegNames, p \in Instances : RegisterProvider(n, p)
    \/ \E m \in MapKeys, n \in RegNames : MapModel(m, n)
    \/ \E f \in FallbackLists : SetFallbacks(f)
    \/ \E m \in MwIds : AddMiddleware(m)
    \/ \E op \in {"Complete", "Stream"}, M \in ReqModels, c \in {"live", "canceled"} :
           RouterCall(op, M, c)
    \/ EnterLayer
    \/ ProviderComplete
    \/ ProviderStream
    \/ LeaveLayer
    \/ RouterReturn
    \/ RouterIdle

-----------------------------------------------------------------------------
(* Retry wrapper (src/unnamed/part_005) *)

\* context.Canceled and context.DeadlineExceeded: what ctx.Err() returns.
\* Neither is llmrouter.ErrContextCanceled.
CtxCanceled == Sentinel("context.Canceled")
CtxDeadlineExceeded == Sentinel("context.DeadlineExceeded")
CtxErr(c) == IF c = "deadline" THEN CtxDeadlineExceeded ELSE CtxCanceled

\* IsRetryable without the switch on APIError.StatusCode
IsRetryableBySentinel(err) ==
    IF err = Nil THEN FALSE
    ELSE IF ErrorsIs(err, ErrContextCanceled) THEN FALSE
    ELSE IF ErrorsIs(err, ErrAuthFailed) THEN FALSE
    ELSE IF ErrorsIs(err, ErrInvalidRequest) THEN FALSE
    ELSE TRUE

\* IsRetryable (src/errors.go)
IsRetryable(err) ==
    IF err = Nil THEN FALSE
    ELSE IF ErrorsIs(err, ErrContextCanceled) THEN FALSE
    ELSE IF ErrorsIs(err, ErrAuthFailed) THEN FALSE
    ELSE IF ErrorsIs(err, ErrInvalidRequest) THEN FALSE
    ELSE IF err.api /\ err.status = 429 THEN TRUE
    ELSE IF err.api /\ err.status \in {500, 502, 503, 504} THEN TRUE
    ELSE IF err.api /\ err.status \in {401, 403, 400} THEN FALSE
    ELSE IF ErrorsIs(err, ErrRateLimited) THEN TRUE
    ELSE TRUE

\* the names of the sentinels of src/errors.go, of the two errors ctx.Err()
\* returns, and "raw" for an error of some other package
ErrorNames ==
    {"ErrUnknownModel", "ErrUnknownProvider", "ErrNoProviders", "ErrRateLimited",
     "ErrContextCanceled", "ErrStreamClosed", "ErrInvalidRequest", "ErrAuthFailed",
     "ErrProviderError", "ErrCircuitOpen", "ErrMaxRetriesExceed",
     "context.Canceled", "context.DeadlineExceeded", "raw"}

\* HTTP status codes an APIError may carry (0: none)
StatusCodes == {0, 200, 400, 401, 403, 404, 429, 500, 501, 502, 503, 504}

\* &APIError{StatusCode: status, Err: cause}, cause "" for a nil Err
APIError(status, cause) ==
    [w |-> "", api |-> TRUE, status |-> status, cause |-> cause,
     msg |-> <<"provider", "message">> \o (IF cause = "" THEN <<>> ELSE <<cause>>)]

\* the non-nil errors IsRetryable is asked about: the sentinels and other plain
\* errors, each of them wrapped with %w, and APIError values of any status
\* around any of them or around nothing (an APIError wrapped with %w answers
\* errors.Is and errors.As as the APIError itself does)
ClassifiedErrors ==
    {Sentinel(n) : n \in ErrorNames}
    \cup {Errorf(Sentinel(n), <<"detail">>) : n \in ErrorNames}
    \cup {APIError(st, c) : st \in StatusCodes, c \in ErrorNames \cup {""}}

\* the functions WithRetryFunc is given in this model, besides the default
Classifiers == {"IsRetryable", "never", "onlyRateLimit"}

\* p.retryable(err)
retryable(err) ==
    CASE tClassifier = "IsRetryable"   -> IsRetryable(err)
      [] tClassifier = "never"         -> FALSE
      [] tClassifier = "onlyRateLimit" -> ErrorsIs(err, ErrRateLimited)

\* errors the wrapped provider returns: the adapters' wrapped backend errors, the
\* circuit breaker's rejection, and a context error passed through
InnerErrors ==
    {wrapError(ChatP, b) : b \in BackendErrors} \cup {ErrCircuitOpen, CtxCanceled}

\* a float64 too large for any Duration
OutOfRange == -1

\* float64(d) * math.Pow(2, float64(n)) for d >= 0: the product while a
\* Duration can hold it
RECURSIVE scaleByPow2(_, _)
scaleByPow2(d, n) ==
    IF n <= 0 THEN d
    ELSE LET h == scaleByPow2(d, n - 1)
         IN  IF h = OutOfRange \/ h > MaxDuration \div 2 THEN OutOfRange ELSE 2 * h

\* time.Duration(f) of a float64 f: f when a Duration can hold it; otherwise
\* the result is implementation-dependent, the conversion instruction of
\* amd64 giving the smallest integer and that of arm64 the largest
DurationOf(f) ==
    IF f # OutOfRange THEN f
    ELSE IF tGoarch = "amd64" THEN MinDuration ELSE MaxDuration

\* retryProvider.calculateBackoff
calculateBackoff(attempt) ==
    LET delay == DurationOf(scaleByPow2(tBase, attempt - 1))
    IN  IF delay > tMaxDelay THEN tMaxDelay ELSE delay

\* a loop that runs its body once before it tests the condition
loopConditionAfterFirst(attempt) == attempt = 0 \/ attempt < tMax

\* the loop condition with <= for <
loopConditionInclusive(attempt) == attempt <= tMax

\* the loop condition of Complete and Stream: attempt < p.maxAttempts
loopCondition(attempt) == attempt < tMax

\* a wrapper that never gives up on a failed attempt
giveUpNever(err) == FALSE

\* if !p.retryable(err) { return nil, err }
giveUp(err) == ~retryable(err)

\* a wrapper that also waits before the first attempt
needsBackoffAlways(attempt) == TRUE

\* if attempt > 0 { delay := p.calculateBackoff(attempt); select ... }
needsBackoff(attempt) == attempt > 0

retryRest == <<tMax, tBase, tMaxDelay, tClassifier, tTimeout, tGoarch>>

\* context.WithTimeout(ctx, p.timeout) of timeoutProvider.Complete / Stream: a
\* new context with a deadline of its own, which starts now; it is done from
\* the start when its parent is
WithTimeout(parent) == IF parent = "live" THEN "live" ELSE parent

\* p.Provider.Complete(ctx, req) of the retry loop: with a timeout wrapper
\* inside, the attempt runs under the context that wrapper makes for it, else
\* under the ctx of the call
AttemptStarts ==
    /\ tAttemptCtx' = IF tTimeout = "inner" THEN WithTimeout(tCtx) ELSE ""
    /\ tStarts' = Append(tStarts,
                         IF tTimeout = "inner"
                         THEN [ctx |-> "attempt", state |-> WithTimeout(tCtx)]
                         ELSE [ctx |-> "call", state |-> tCtx])

\* retryProvider.Complete / Stream is called
RetryCall(op) ==
    /\ tPhase = "idle"
    /\ tOp' = op /\ tPhase' = "head" /\ tAttempt' = 0
    /\ UNCHANGED <<retryRest, tLastErr, tCalls, tSleeps, tCtx, tCtxDoneIn, tResult, tAttemptCtx, tStarts>>
    /\ UNCHANGED nonRetryVars

\* the for statement: the condition fails and the wrapper reports exhaustion
RetryExhausted ==
    /\ tPhase = "head" /\ ~loopCondition(tAttempt)
    /\ tPhase' = "done"
    /\ tResult' = [err |-> Errorf(ErrMaxRetriesExceed,
                                  IF tLastErr = Nil THEN <<"<nil>">> ELSE tLastErr.msg),
                   ok |-> FALSE, events |-> <<>>]
    /\ UNCHANGED <<retryRest, tOp, tAttempt, tLastErr, tCalls, tSleeps, tCtx, tCtxDoneIn, tAttemptCtx, tStarts>>
    /\ UNCHANGED nonRetryVars

\* the for statement: the condition holds; attempts after the first wait first
RetryIterate ==
    /\ tPhase = "head" /\ loopCondition(tAttempt)
    /\ IF needsBackoff(tAttempt)
       THEN tPhase' = "sleep" /\ UNCHANGED <<tAttemptCtx, tStarts>>
       ELSE tPhase' = "call" /\ AttemptStarts
    /\ UNCHANGED <<retryRest, tOp, tAttempt, tLastErr, tCalls, tSleeps, tCtx, tCtxDoneIn, tResult>>
    /\ UNCHANGED nonRetryVars

\* select: time.After(delay) fires
RetrySlept ==
    /\ tPhase = "sleep"
    /\ tSleeps' = Append(tSleeps, calculateBackoff(tAttempt))
    /\ tPhase' = "call" /\ AttemptStarts
    /\ UNCHANGED <<retryRest, tOp, tAttempt, tLastErr, tCalls, tCtx, tCtxDoneIn, tResult>>
    /\ UNCHANGED nonRetryVars

\* select: ctx.Done() is taken
RetrySleepCancelled ==
    /\ tPhase = "sleep" /\ tCtx # "live"
    /\ tPhase' = "done"
    /\ tResult' = [err |-> CtxErr(tCtx), ok |-> FALSE, events |-> <<>>]
    /\ UNCHANGED <<retryRest, tOp, tAttempt, tLastErr, tCalls, tSleeps, tCtx, tCtxDoneIn, tAttemptCtx, tStarts>>
    /\ UNCHANGED nonRetryVars

\* the wrapped provider returns a result (a Response, or a channel for Stream)
RetryAttemptSucceeds ==
    /\ tPhase = "call"
    /\ tCalls' = Append(tCalls, Nil)
    /\ tPhase' = "done"
    /\ tResult' = [err |-> Nil, ok |-> TRUE, events |-> <<>>]
    /\ UNCHANGED <<retryRest, tOp, tAttempt, tLastErr, tSleeps, tCtx, tCtxDoneIn, tAttemptCtx, tStarts>>
    /\ UNCHANGED nonRetryVars

\* the wrapped provider returns an error
RetryAttemptFails(err) ==
    /\ tPhase = "call"
    /\ tCalls' = Append(tCalls, err)
    /\ tLastErr' = err
    /\ IF giveUp(err)
       THEN /\ tPhase' = "done"
            /\ tResult' = [err |-> err, ok |-> FALSE, events |-> <<>>]
            /\ UNCHANGED tAttempt
       ELSE /\ tPhase' = "head"
            /\ tAttempt' = tAttempt + 1
            /\ UNCHANGED tResult
    /\ UNCHANGED <<retryRest, tOp, tSleeps, tCtx, tCtxDoneIn, tAttemptCtx, tStarts>>
    /\ UNCHANGED nonRetryVars

\* the deadline timeoutProvider set for this attempt passes during the attempt
AttemptDeadline ==
    /\ tPhase = "call" /\ tAttemptCtx = "live"
    /\ tAttemptCtx' = "deadline"
    /\ UNCHANGED <<retryRest, tOp, tPhase, tAttempt, tLastErr, tCalls, tSleeps, tCtx, tCtxDoneIn, tResult,
                   tStarts>>
    /\ UNCHANGED nonRetryVars

\* the caller cancels the context, or the deadline of a timeout wrapper around
\* the retry wrapper passes, during the call; a ctx derived from it is done too
RetryCtxDone(how) ==
    /\ tPhase \in {"head", "sleep", "call"} /\ tCtx = "live"
    /\ tCtx' = how
    /\ tCtxDoneIn' = tPhase
    /\ tAttemptCtx' = IF tAttemptCtx = "live" THEN how ELSE tAttemptCtx
    /\ UNCHANGED <<retryRest, tOp, tPhase, tAttempt, tLastErr, tCalls, tSleeps, tResult, tStarts>>
    /\ UNCHANGED nonRetryVars

\* a wrapper that goes back to its loop when the stream it returned fails
afterHandoffRetry(e) == IF e = "Error" THEN "head" ELSE "done"

\* return ch, nil: Stream has returned the inner channel itself, so nothing of
\* the wrapper runs when an event flows on it
afterHandoff(e) == "done"

\* the kinds of event the wrapped provider's channel carries
StreamEventKinds == {"Content", "Done", "Error"}

\* an event flows on the channel Stream returned, from the wrapped provider to
\* the caller
RetryStreamDelivers(e) ==
    /\ tPhase = "done" /\ tOp = "Stream" /\ tResult.ok
    /\ Len(tResult.events) < MaxRetryEvents
    /\ tResult' = [tResult EXCEPT !.events = Append(@, e)]
    /\ tPhase' = afterHandoff(e)
    /\ UNCHANGED <<retryRest, tOp, tAttempt, tLastErr, tCalls, tSleeps, tCtx, tCtxDoneIn, tAttemptCtx, tStarts>>
    /\ UNCHANGED nonRetryVars

NoRetryResult == [err |-> Nil, ok |-> FALSE, events |-> <<>>]

\* the caller has the result; the wrapper (rebuilt per call) is ready again
RetryIdle ==
    /\ tPhase = "done"
    /\ tPhase' = "idle" /\ tOp' = "" /\ tAttempt' = 0 /\ tLastErr' = Nil
    /\ tCalls' = <<>> /\ tSleeps' = <<>> /\ tCtx' = "live" /\ tResult' = NoRetryResult
    /\ tAttemptCtx' = "" /\ tStarts' = <<>> /\ tCtxDoneIn' = ""
    /\ UNCHANGED retryRest
    /\ UNCHANGED nonRetryVars

RetryCallIdle ==
    /\ tOp = "" /\ tPhase = "idle" /\ tAttempt = 0 /\ tLastErr = Nil
    /\ tCalls = <<>> /\ tSleeps = <<>> /\ tCtx = "live" /\ tResult = NoRetryResult
    /\ tAttemptCtx = "" /\ tStarts = <<>> /\ tCtxDoneIn = ""

\* NewRetryMiddleware(maxAttempts, baseDelay), optionally WithMaxDelay and
\* WithRetryFunc, then Wrap
RetryInit ==
    /\ tMax \in (0 - 1)..MaxAttempts
    /\ tBase \in {1, 20}
    /\ tMaxDelay \in {DefaultMaxDelay, 3}
    /\ tClassifier \in Classifiers
    /\ tTimeout \in {"none", "outer", "inner"}
    /\ tGoarch \in GoArchs
    /\ RetryCallIdle

\* the retry wrappers whose backoff is computed: any number of attempts, any
\* positive baseDelay and maxDelay
BackoffInit ==
    /\ tMax \in 0..MaxBackoffAttempts
    /\ tBase \in {1, 20, MaxDuration \div 4 + 1, MaxDuration}
    /\ tMaxDelay \in {DefaultMaxDelay, 3, MaxDuration}
    /\ tClassifier = "IsRetryable"
    /\ tTimeout = "none"
    /\ tGoarch \in GoArchs
    /\ RetryCallIdle

\* p.calculateBackoff(attempt), as the loops of Complete and Stream call it:
\* for an attempt from 1 to maxAttempts - 1
CalculateBackoff(attempt) ==
    /\ attempt < tMax
    /\ fn' = "calculateBackoff"
    /\ argv' = <<attempt>>
    /\ retv' = <<calculateBackoff(attempt)>>
    /\ UNCHANGED nonCallOfVars

\* the retry variables while another part of the program is looked at
RetryUnused ==
    /\ tMax = 0 /\ tBase = 1 /\ tMaxDelay = DefaultMaxDelay /\ tClassifier = "IsRetryable"
    /\ tTimeout = "none" /\ tGoarch = "amd64"
    /\ RetryCallIdle

RetryNext ==
    \/ \E op \in {"Complete", "Stream"} : RetryCall(op)
    \/ \E e \in StreamEventKinds : RetryStreamDelivers(e)
    \/ RetryExhausted
    \/ RetryIterate
    \/ RetrySlept
    \/ RetrySleepCancelled
    \/ RetryAttemptSucceeds
    \/ \E e \in InnerErrors : RetryAttemptFails(e)
    \/ AttemptDeadline
    \/ \E how \in {"canceled", "deadline"} : RetryCtxDone(how)
    \/ RetryIdle

-----------------------------------------------------------------------------
(* Canonical types (src/types.go).  Text is a sequence of characters, so    *)
(* that concatenation is \o.                                                *)

NoIndex == 0 - 1     \* ToolCall.Index = nil

ToolCall(id, index, name, args) ==
    [id |-> id, index |-> index, name |-> name, args |-> args]

NoMessage == [present |-> FALSE, content |-> <<>>, toolCalls |-> <<>>]
Message(content, toolCalls) ==
    [present |-> TRUE, content |-> content, toolCalls |-> toolCalls]

\* Delta has the shape of a message: Content and ToolCalls
NoDelta == [present |-> FALSE, content |-> <<>>, toolCalls |-> <<>>]
Delta(content, toolCalls) ==
    [present |-> TRUE, content |-> content, toolCalls |-> toolCalls]

NoUsage == [present |-> FALSE, prompt |-> 0, completion |-> 0, total |-> 0]
Usage(prompt, completion, total) ==
    [present |-> TRUE, prompt |-> prompt, completion |-> completion, total |-> total]

\* Choice: Message and Delta are pointers; either can be nil (present = FALSE)
Choice(message, delta, finishReason) ==
    [message |-> message, delta |-> delta, finish |-> finishReason]

Response(provider, choices, usage) ==
    [provider |-> provider, choices |-> choices, usage |-> usage]

NoResp == Response("", <<>>, NoUsage)

ContentDelta(text) ==
    [type |-> "ContentDelta", content |-> text, tcs |-> <<>>, resp |-> NoResp, err |-> Nil]
ToolCallDelta(tcs) ==
    [type |-> "ToolCallDelta", content |-> <<>>, tcs |-> tcs, resp |-> NoResp, err |-> Nil]
DoneEvent(resp) ==
    [type |-> "Done", content |-> <<>>, tcs |-> <<>>, resp |-> resp, err |-> Nil]
ErrorEvent(err) ==
    [type |-> "Error", content |-> <<>>, tcs |-> <<>>, resp |-> NoResp, err |-> err]

NoEvent == [type |-> "", content |-> <<>>, tcs |-> <<>>, resp |-> NoResp, err |-> Nil]

IsTerminator(ev) == ev.type \in {"Done", "Error"}

-----------------------------------------------------------------------------
(* The adapters' producer goroutines *)

\* local variables of the goroutine; each adapter uses its own
NoChunk == [choice |-> FALSE, content |-> <<>>, tcs |-> <<>>, finish |-> "",
            usage |-> NoUsage]
AccInit ==
    [content |-> <<>>, toolCalls |-> <<>>, curId |-> "", curName |-> "",
     args |-> <<>>, inTok |-> 0, outTok |-> 0, stop |-> "",
     hasLast |-> FALSE, last |-> NoChunk]

\* ---- Chat adapter (src/examples/fallback/main.go, src/providers/openai/converter.go)

\* a chunk of the backend: choice is len(chunk.Choices) > 0, and the other
\* fields are those of Choices[0] (Delta.Content, Delta.ToolCalls, FinishReason)
Chunk(content, tcs, finish) ==
    [choice |-> TRUE, content |-> content, tcs |-> tcs, finish |-> finish,
     usage |-> NoUsage]
UsageChunk(u) ==
    [choice |-> FALSE, content |-> <<>>, tcs |-> <<>>, finish |-> "", usage |-> u]

ChatChunks ==
    {Chunk(<<"a">>, <<>>, ""), Chunk(<<"b">>, <<>>, ""),
     Chunk(<<>>, <<ToolCall("c1", 0, "f", <<"x">>)>>, ""),
     Chunk(<<>>, <<ToolCall("", 0, "", <<"y">>)>>, ""),
     Chunk(<<"a">>, <<ToolCall("c2", 1, "g", <<"x">>)>>, ""),
     Chunk(<<>>, <<>>, "stop"), Chunk(<<>>, <<>>, "tool_calls"),
     UsageChunk(Usage(1, 2, 3)), UsageChunk(Usage(1, 2, 4))}

\* convertStreamToolCalls: ID, Index, Name, Arguments are copied
convertStreamToolCalls(tcs) ==
    [j \in 1..Len(tcs) |-> ToolCall(tcs[j].id, tcs[j].index, tcs[j].name, tcs[j].args)]

\* convertChunkResponse: each choice gets a Delta, and no Message
convertChunkResponse(chunk, provider) ==
    Response(provider,
             IF chunk.choice
             THEN <<Choice(NoMessage,
                           Delta(chunk.content, convertStreamToolCalls(chunk.tcs)),
                           chunk.finish)>>
             ELSE <<>>,
             IF chunk.usage.total > 0 THEN chunk.usage ELSE NoUsage)

\* the body of the for stream.Next() loop: what is sent for a chunk
chatEmit(chunk) ==
    (IF chunk.choice /\ chunk.content # <<>>
     THEN <<ContentDelta(chunk.content)>> ELSE <<>>)
    \o (IF chunk.choice /\ Len(chunk.tcs) > 0
        THEN <<ToolCallDelta(convertStreamToolCalls(chunk.tcs))>> ELSE <<>>)

chatStep(acc, chunk) == [acc EXCEPT !.hasLast = TRUE, !.last = chunk]

\* the final response: built from the last chunk alone
chatDone(acc, p) ==
    IF acc.hasLast
    THEN DoneEvent(convertChunkResponse(acc.last, p.name))
    ELSE DoneEvent(Response(p.name, <<>>, NoUsage))

\* ---- Messages adapter (src/unnamed/part_002)

\* an event of the backend stream; block is the type of the content block a
\* content_block_start opens (text or tool_use)
MsgEvent(t, block, id, name, text, tokens, stop) ==
    [t |-> t, block |-> block, id |-> id, name |-> name, text |-> text,
     tokens |-> tokens, stop |-> stop]

ToolIds == <<"t1", "t2", "t3", "t4">>

\* the events the backend can send next, by the Messages streaming protocol:
\* deltas only inside a block of their type; the k-th tool_use block has id t<k>
MessagesNext(proto) ==
    CASE proto.block = "none" ->
           (IF proto.started THEN {}
            ELSE {MsgEvent("message_start", "", "msg", "", <<>>, 2, "")})
           \cup (IF proto.stopped THEN {}
                 ELSE {MsgEvent("content_block_start", "text", "", "", <<>>, 0, ""),
                       MsgEvent("content_block_start", "tool_use",
                                ToolIds[proto.tools + 1], "f", <<>>, 0, "")}
                      \cup {MsgEvent("message_delta", "", "", "", <<>>, 1, r) :
                                r \in {"end_turn", "tool_use", "max_tokens"}})
      [] proto.block = "text" ->
           {MsgEvent("text_delta", "", "", "", <<c>>, 0, "") : c \in {"a", "b"}}
           \cup {MsgEvent("content_block_stop", "", "", "", <<>>, 0, "")}
      [] proto.block = "tool_use" ->
           {MsgEvent("input_json_delta", "", "", "", <<c>>, 0, "") : c \in {"x", "y"}}
           \cup {MsgEvent("content_block_stop", "", "", "", <<>>, 0, "")}

\* finish and usage: the native finish / stop reason and the usage the backend
\* has reported so far on this stream (all three backends); content and calls:
\* the text and the tool calls of the reply so far, as the backend's
\* non-streaming call returns them in one piece
ProtoInit ==
    [block |-> "none", tools |-> 0, started |-> FALSE, stopped |-> FALSE,
     finish |-> "", usage |-> NoUsage, content |-> <<>>, calls |-> <<>>]

\* the tool calls of a Chat reply after the fragments tcs of a chunk: a
\* fragment belongs to the call of its index
RECURSIVE chatReplyCalls(_, _)
chatReplyCalls(calls, tcs) ==
    IF tcs = <<>> THEN calls
    ELSE LET tc == Head(tcs)
             at == {k \in 1..Len(calls) : calls[k].index = tc.index}
         IN  chatReplyCalls(
               IF at = {} THEN Append(calls, tc)
               ELSE LET k == CHOOSE x \in at : TRUE
                    IN  [calls EXCEPT ![k].args = @ \o tc.args,
                                      ![k].id = IF @ = "" THEN tc.id ELSE @,
                                      ![k].name = IF @ = "" THEN tc.name ELSE @],
               Tail(tcs))

\* the text and function calls of a GenerativeChat reply after the parts of
\* one more response
RECURSIVE generativeReply(_, _)
generativeReply(proto, parts) ==
    IF parts = <<>> THEN proto
    ELSE generativeReply(
           IF Head(parts).fc
           THEN [proto EXCEPT !.calls = Append(@, ToolCall(Head(parts).name, NoIndex,
                                                           Head(parts).name, Head(parts).args))]
           ELSE [proto EXCEPT !.content = @ \o Head(parts).text],
           Tail(parts))

MessagesProto(proto, e) ==
    CASE e.t = "message_start" -> [proto EXCEPT !.started = TRUE]
      [] e.t = "content_block_start" ->
           [proto EXCEPT !.block = e.block, !.started = TRUE,
                         !.tools = IF e.block = "tool_use" THEN @ + 1 ELSE @]
      [] e.t = "content_block_stop" -> [proto EXCEPT !.block = "none"]
      [] e.t = "message_delta" -> [proto EXCEPT !.stopped = TRUE, !.started = TRUE]
      [] OTHER -> proto

\* the switch on the event type: the local variables after the event
messagesStep(acc, e) ==
    CASE e.t = "message_start" ->
           IF e.tokens > 0 THEN [acc EXCEPT !.inTok = e.tokens] ELSE acc
      [] e.t = "content_block_start" ->
           IF e.block = "tool_use"
           THEN [acc EXCEPT !.curId = e.id, !.curName = e.name, !.args = <<>>]
           ELSE acc
      [] e.t = "text_delta" -> [acc EXCEPT !.content = @ \o e.text]
      [] e.t = "input_json_delta" -> [acc EXCEPT !.args = @ \o e.text]
      [] e.t = "content_block_stop" ->
           IF acc.curId # "" /\ acc.curName # ""
           THEN [acc EXCEPT !.toolCalls =
                                Append(@, ToolCall(acc.curId, NoIndex, acc.curName, acc.args)),
                            !.curId = "", !.curName = "", !.args = <<>>]
           ELSE acc
      [] e.t = "message_delta" ->
           [acc EXCEPT !.stop = IF e.stop # "" THEN e.stop ELSE @,
                       !.outTok = IF e.tokens > 0 THEN e.tokens ELSE @]

\* the switch on the event type: what is sent for the event
messagesEmit(acc, e) ==
    CASE e.t = "text_delta" -> <<ContentDelta(e.text)>>
      [] e.t = "input_json_delta" ->
           <<ToolCallDelta(<<ToolCall(acc.curId, NoIndex, acc.curName, e.text)>>)>>
      [] OTHER -> <<>>

messagesFinish(stopReason) ==
    IF stopReason = "tool_use" THEN "tool_calls"
    ELSE IF stopReason = "max_tokens" THEN "length"
    ELSE "stop"

messagesDone(acc, p) ==
    DoneEvent(Response(Name(p),
                       <<Choice(Message(acc.content, acc.toolCalls), NoDelta,
                                messagesFinish(acc.stop))>>,
                       Usage(acc.inTok, acc.outTok, acc.inTok + acc.outTok)))

\* ---- GenerativeChat adapter (src/unnamed/part_001)

\* json.Marshal of the arguments of a function call; nil gives "{}"
convertFunctionCallArgs(args) ==
    IF args = "nil" THEN <<"{", "}">> ELSE <<"{", args, "}">>

\* a part of a candidate's content: genai.Text or genai.FunctionCall
TextPart(text) == [fc |-> FALSE, text |-> text, name |-> "", args |-> "nil"]
FunctionCallPart(name, args) == [fc |-> TRUE, text |-> <<>>, name |-> name, args |-> args]

\* a response of the iterator: the parts of all candidates with content, the
\* candidate's FinishReason ("" while unset) and UsageMetadata
GenerateContentResponse(parts, finish, usage) ==
    [parts |-> parts, finish |-> finish, usage |-> usage]

GenerativeResponses ==
    {GenerateContentResponse(ps, "", NoUsage) :
        ps \in {<<TextPart(<<"a">>)>>, <<TextPart(<<"b">>)>>,
                <<FunctionCallPart("f", "nil")>>, <<FunctionCallPart("f", "x")>>,
                <<TextPart(<<"a">>), FunctionCallPart("g", "y")>>, <<>>}}
    \cup {GenerateContentResponse(<<TextPart(<<"b">>)>>, "MAX_TOKENS", NoUsage),
          GenerateContentResponse(<<>>, "STOP", Usage(1, 2, 3)),
          GenerateContentResponse(<<>>, "SAFETY", NoUsage)}

generativeToolCall(part) ==
    ToolCall(part.name, NoIndex, part.name, convertFunctionCallArgs(part.args))

RECURSIVE generativeStep(_, _)
generativeStep(acc, parts) ==
    IF parts = <<>> THEN acc
    ELSE generativeStep(
           IF Head(parts).fc
           THEN [acc EXCEPT !.toolCalls = Append(@, generativeToolCall(Head(parts)))]
           ELSE [acc EXCEPT !.content = @ \o Head(parts).text],
           Tail(parts))

generativeEmit(parts) ==
    [i \in 1..Len(parts) |->
        IF parts[i].fc THEN ToolCallDelta(<<generativeToolCall(parts[i])>>)
        ELSE ContentDelta(parts[i].text)]

generativeDone(acc, p) ==
    DoneEvent(Response(Name(p),
                       <<Choice(Message(acc.content, acc.toolCalls), NoDelta,
                                IF Len(acc.toolCalls) > 0 THEN "tool_calls" ELSE "stop")>>,
                       NoUsage))

\* ---- Complete: the conversion of the backend's reply in one piece

\* the llmrouter.ToolCall list made of the reply's tool calls: ID, Name and
\* Arguments are copied, Index is not set
convertToolCalls(calls) ==
    [j \in 1..Len(calls) |-> ToolCall(calls[j].id, NoIndex, calls[j].name, calls[j].args)]

\* convertResponse of the Chat adapter (src/providers/openai/converter.go)
chatConvertResponse(reply, provider) ==
    Response(provider,
             <<Choice(Message(reply.content, convertToolCalls(reply.calls)), NoDelta,
                      reply.finish)>>,
             IF reply.usage.total > 0 THEN reply.usage ELSE NoUsage)

\* convertToOpenAIResponse of the Messages adapter (src/unnamed/part_003); the
\* arguments are json.Marshal of the block's raw input, the text the backend
\* sent for it
convertToOpenAIResponse(reply, provider) ==
    Response(provider,
             <<Choice(Message(reply.content, convertToolCalls(reply.calls)), NoDelta,
                      messagesFinish(reply.finish))>>,
             Usage(reply.usage.prompt, reply.usage.completion,
                   reply.usage.prompt + reply.usage.completion))

\* convertResponse of the GenerativeChat adapter (src/unnamed/part_001)
generativeConvertResponse(reply, provider) ==
    LET toolCalls == [j \in 1..Len(reply.calls) |->
                         ToolCall(reply.calls[j].name, NoIndex, reply.calls[j].name,
                                  convertFunctionCallArgs(reply.calls[j].args))]
    IN  Response(provider,
                 <<Choice(Message(reply.content, toolCalls), NoDelta,
                          IF Len(toolCalls) > 0 THEN "tool_calls"
                          ELSE IF reply.finish = "MAX_TOKENS" THEN "length"
                          ELSE IF reply.finish = "SAFETY" THEN "content_filter"
                          ELSE "stop")>>,
                 IF reply.usage.present THEN reply.usage ELSE NoUsage)

\* what Provider.Complete of the adapter returns for the reply
adapterComplete(reply) ==
    CASE sKind = "chat" -> chatConvertResponse(reply, ChatP.name)
      [] sKind = "messages" -> convertToOpenAIResponse(reply, Name(MessagesP))
      [] sKind = "generative" -> generativeConvertResponse(reply, Name(GenerativeP))

\* ---- the three together

ProviderOf(kind) ==
    CASE kind = "chat" -> ChatP
      [] kind = "messages" -> MessagesP
      [] kind = "generative" -> GenerativeP

BackendNext ==
    CASE sKind = "chat" -> IF bCount < MaxChunks THEN ChatChunks ELSE {}
      [] sKind = "messages" -> IF bCount < MaxMsgEvents THEN MessagesNext(bProto) ELSE {}
      [] sKind = "generative" -> IF bCount < MaxChunks THEN GenerativeResponses ELSE {}

\* the backend after it produced e: the Messages protocol moves on, and the
\* finish reason and usage the event reports are on record
BackendProto(proto, e) ==
    CASE sKind = "chat" ->
           [proto EXCEPT !.finish = IF e.choice /\ e.finish # "" THEN e.finish ELSE @,
                         !.usage = IF e.usage.present THEN e.usage ELSE @,
                         !.content = @ \o e.content,
                         !.calls = chatReplyCalls(@, e.tcs)]
      [] sKind = "messages" ->
           [MessagesProto(proto, e) EXCEPT
                !.content = IF e.t = "text_delta" THEN @ \o e.text ELSE @,
                !.calls = IF e.t = "content_block_start" /\ e.block = "tool_use"
                          THEN Append(@, ToolCall(e.id, NoIndex, e.name, <<>>))
                          ELSE IF e.t = "input_json_delta"
                          THEN [@ EXCEPT ![Len(@)].args = @ \o e.text]
                          ELSE @,
                !.finish = IF e.t = "message_delta" /\ e.stop # "" THEN e.stop ELSE @,
                !.usage = IF e.t = "message_start"
                          THEN Usage(e.tokens, @.completion, e.tokens + @.completion)
                          ELSE IF e.t = "message_delta"
                          THEN Usage(@.prompt, e.tokens, @.prompt + e.tokens)
                          ELSE @]
      [] sKind = "generative" ->
           [generativeReply(proto, e.parts) EXCEPT
                !.finish = IF e.finish # "" THEN e.finish ELSE @,
                !.usage = IF e.usage.present THEN e.usage ELSE @]

adapterStep(acc, e) ==
    CASE sKind = "chat" -> chatStep(acc, e)
      [] sKind = "messages" -> messagesStep(acc, e)
      [] sKind = "generative" -> generativeStep(acc, e.parts)

adapterEmit(acc, e) ==
    CASE sKind = "chat" -> chatEmit(e)
      [] sKind = "messages" -> messagesEmit(acc, e)
      [] sKind = "generative" -> generativeEmit(e.parts)

adapterDone(acc) ==
    CASE sKind = "chat" -> chatDone(acc, ChatP)
      [] sKind = "messages" -> messagesDone(acc, MessagesP)
      [] sKind = "generative" -> generativeDone(acc, GenerativeP)

-----------------------------------------------------------------------------
(* One stream (src/middleware/timeout.go and the adapters' Stream) *)

\* the middleware lists streams are routed through in this model
StreamChains == {<<>>, <<"retry", "breaker">>, <<"retry", "timeout", "breaker">>}

\* the failures a backend stream ends with in this model
StreamErrors == {[typed |-> TRUE, status |-> 429], [typed |-> FALSE, status |-> 0]}

\* retryProvider.Stream and circuitBreakerProvider.Stream return the channel of
\* the wrapped provider; timeoutProvider.Stream returns outCh, fed by a goroutine
HasTimeout == \E i \in 1..Len(sChain) : sChain[i] = "timeout"

\* the channel the consumer holds is closed
ConsumerChannelClosed == IF HasTimeout THEN fPc = "closed" ELSE pPc = "closed"

\* the adapter goroutine after its send on ch was received
AfterSend ==
    /\ pPending' = Tail(pPending)
    /\ pPc' = IF Tail(pPending) # <<>> THEN pPc
              ELSE IF pPc = "sendlast" THEN "closing" ELSE "run"

\* Router.Stream returns: the adapter's goroutine runs, and so does the timeout
\* wrapper's when the chain has one
RouteStream(kind, chain) ==
    /\ pPc = "idle"
    /\ sKind' = kind /\ sChain' = chain
    /\ pPc' = "run"
    /\ fPc' = IF \E i \in 1..Len(chain) : chain[i] = "timeout" THEN "select" ELSE "none"
    /\ UNCHANGED <<sCtx, bProto, bCount, pPending, pAcc, fEv, delivered, cClosed, cGone>>
    /\ UNCHANGED fGot
    /\ UNCHANGED nonStreamVars

\* stream.Next() / iter.Next() yields the next backend event
BackendEvent(e) ==
    /\ pPc = "run"
    /\ bCount' = bCount + 1
    /\ bProto' = BackendProto(bProto, e)
    /\ pAcc' = adapterStep(pAcc, e)
    /\ pPending' = adapterEmit(pAcc, e)
    /\ pPc' = IF adapterEmit(pAcc, e) = <<>> THEN "run" ELSE "send"
    /\ UNCHANGED <<sKind, sChain, sCtx, fPc, fEv, delivered, cClosed, cGone>>
    /\ UNCHANGED fGot
    /\ UNCHANGED nonStreamVars

\* the backend stream ends without error: the Done event is built
BackendEnds ==
    /\ pPc = "run"
    /\ sKind = "messages" => bProto.block = "none"
    /\ pPending' = <<adapterDone(pAcc)>>
    /\ pPc' = "sendlast"
    /\ UNCHANGED <<sKind, sChain, sCtx, bProto, bCount, pAcc, fPc, fEv, delivered, cClosed, cGone>>
    /\ UNCHANGED fGot
    /\ UNCHANGED nonStreamVars

\* the backend stream ends with an error: the Error event is built
BackendFails(berr) ==
    /\ pPc = "run"
    /\ pPending' = <<ErrorEvent(wrapError(ProviderOf(sKind), berr))>>
    /\ pPc' = "sendlast"
    /\ UNCHANGED <<sKind, sChain, sCtx, bProto, bCount, pAcc, fPc, fEv, delivered, cClosed, cGone>>
    /\ UNCHANGED fGot
    /\ UNCHANGED nonStreamVars

\* ch <- event of the adapter, received by the consumer (no timeout wrapper)
ConsumerReceives ==
    /\ ~cGone
    /\ ~HasTimeout /\ pPc \in {"send", "sendlast"}
    /\ delivered' = Append(delivered, Head(pPending))
    /\ AfterSend
    /\ UNCHANGED <<sKind, sChain, sCtx, bProto, bCount, pAcc, fPc, fEv, cClosed, cGone>>
    /\ UNCHANGED fGot
    /\ UNCHANGED nonStreamVars

\* defer close(ch) of the adapter goroutine
ProducerCloses ==
    /\ pPc = "closing"
    /\ pPc' = "closed"
    /\ UNCHANGED <<sKind, sChain, sCtx, bProto, bCount, pPending, pAcc, fPc, fEv,
                   delivered, cClosed, cGone>>
    /\ UNCHANGED fGot
    /\ UNCHANGED nonStreamVars

\* timeout goroutine, outer select: case event, ok := <-ch with ok true
TimeoutReceives ==
    /\ fPc = "select" /\ pPc \in {"send", "sendlast"}
    /\ fEv' = Head(pPending)
    /\ fGot' = Append(fGot, Head(pPending))
    /\ fPc' = "fwd"
    /\ AfterSend
    /\ UNCHANGED <<sKind, sChain, sCtx, bProto, bCount, pAcc, delivered, cClosed, cGone>>
    /\ UNCHANGED nonStreamVars

\* the deferred cancel() of the timeout goroutine
Cancelled(c) == IF c = "live" THEN "canceled" ELSE c

\* timeout goroutine, outer select: <-ch with ok false; return
TimeoutSeesClosed ==
    /\ fPc = "select" /\ pPc = "closed"
    /\ fPc' = "closed"
    /\ sCtx' = Cancelled(sCtx)
    /\ UNCHANGED <<sKind, sChain, bProto, bCount, pPc, pPending, pAcc, fEv, delivered, cClosed, cGone>>
    /\ UNCHANGED fGot
    /\ UNCHANGED nonStreamVars

\* timeout goroutine, outer select: case <-ctx.Done()
TimeoutCtxDone ==
    /\ fPc = "select" /\ sCtx # "live"
    /\ fEv' = ErrorEvent(CtxErr(sCtx))
    /\ fPc' = "errsend"
    /\ UNCHANGED <<sKind, sChain, sCtx, bProto, bCount, pPc, pPending, pAcc, delivered, cClosed, cGone>>
    /\ UNCHANGED fGot
    /\ UNCHANGED nonStreamVars

\* a forwarding goroutine that sends the event it holds twice
forwardedTwice(event) == <<event, event>>

\* what `outCh <- event` puts on the output channel
forwarded(event) == <<event>>

\* timeout goroutine, inner select: case outCh <- event
TimeoutForwards ==
    /\ ~cGone
    /\ fPc = "fwd"
    /\ delivered' = delivered \o forwarded(fEv)
    /\ fEv' = NoEvent
    /\ fPc' = "select"
    /\ UNCHANGED <<sKind, sChain, sCtx, bProto, bCount, pPc, pPending, pAcc, cClosed, cGone>>
    /\ UNCHANGED fGot
    /\ UNCHANGED nonStreamVars

\* timeout goroutine, inner select: case <-ctx.Done(); the event held is dropped
TimeoutForwardCtxDone ==
    /\ fPc = "fwd" /\ sCtx # "live"
    /\ fEv' = ErrorEvent(CtxErr(sCtx))
    /\ fPc' = "errsend"
    /\ UNCHANGED <<sKind, sChain, sCtx, bProto, bCount, pPc, pPending, pAcc, delivered, cClosed, cGone>>
    /\ UNCHANGED fGot
    /\ UNCHANGED nonStreamVars

\* timeout goroutine: outCh <- Event{Type: EventError, Error: ctx.Err()}; return
TimeoutSendsError ==
    /\ ~cGone
    /\ fPc = "errsend"
    /\ delivered' = Append(delivered, fEv)
    /\ fEv' = NoEvent
    /\ fPc' = "closed"
    /\ UNCHANGED <<sKind, sChain, sCtx, bProto, bCount, pPc, pPending, pAcc, cClosed, cGone>>
    /\ UNCHANGED fGot
    /\ UNCHANGED nonStreamVars

\* the consumer's receive finds its channel closed
ConsumerSeesClose ==
    /\ ~cGone
    /\ ~cClosed /\ ConsumerChannelClosed
    /\ cClosed' = TRUE
    /\ UNCHANGED <<sKind, sChain, sCtx, bProto, bCount, pPc, pPending, pAcc, fPc, fEv,
                   delivered, cGone>>
    /\ UNCHANGED fGot
    /\ UNCHANGED nonStreamVars

\* the consumer stops receiving, before it has seen the channel closed
ConsumerAbandons ==
    /\ pPc # "idle" /\ ~cClosed /\ ~cGone
    /\ cGone' = TRUE
    /\ UNCHANGED <<sKind, sChain, sCtx, bProto, bCount, pPc, pPending, pAcc, fPc, fEv,
                   delivered, cClosed>>
    /\ UNCHANGED fGot
    /\ UNCHANGED nonStreamVars

\* the caller cancels the context, or the deadline passes
StreamCtxDone(how) ==
    /\ pPc # "idle" /\ ~cClosed /\ sCtx = "live"
    /\ how = "deadline" => HasTimeout
    /\ sCtx' = how
    /\ UNCHANGED <<sKind, sChain, bProto, bCount, pPc, pPending, pAcc, fPc, fEv, delivered, cClosed, cGone>>
    /\ UNCHANGED fGot
    /\ UNCHANGED nonStreamVars

StreamInit ==
    /\ sKind = "chat" /\ sChain = <<>> /\ sCtx = "live"
    /\ bProto = ProtoInit /\ bCount = 0
    /\ pPc = "idle" /\ pPending = <<>> /\ pAcc = AccInit
    /\ fPc = "none" /\ fEv = NoEvent /\ fGot = <<>>
    /\ delivered = <<>> /\ cClosed = FALSE /\ cGone = FALSE

StreamNext ==
    \/ \E k \in {"chat", "messages", "generative"}, c \in StreamChains : RouteStream(k, c)
    \/ \E e \in BackendNext : BackendEvent(e)
    \/ BackendEnds
    \/ \E b \in StreamErrors : BackendFails(b)
    \/ ConsumerReceives
    \/ ProducerCloses
    \/ TimeoutReceives
    \/ TimeoutSeesClosed
    \/ TimeoutCtxDone
    \/ TimeoutForwards
    \/ TimeoutForwardCtxDone
    \/ TimeoutSendsError
    \/ ConsumerSeesClose
    \/ ConsumerAbandons
    \/ \E how \in {"canceled", "deadline"} : StreamCtxDone(how)

-----------------------------------------------------------------------------
(* Circuit breaker wrapper (src/middleware/circuitbreaker.go).  The breaker *)
(* is a gobreaker.CircuitBreaker with the Settings of                       *)
(* NewCircuitBreakerMiddleware: MaxRequests = maxFailures, Interval = 60 s, *)
(* Timeout = timeout, ReadyToTrip = ConsecutiveFailures > maxFailures.      *)
(* cb is a record:                                                          *)
(*   state       "closed", "open" or "half-open"                            *)
(*   generation  bumped whenever the counts are cleared                     *)
(*   counts      Requests, ConsecutiveSuccesses (cs), ConsecutiveFailures   *)
(*               (cf); the totals are never read with these Settings        *)
(*   expired     the clock has passed the expiry of the generation: the     *)
(*               Interval while closed, the Timeout while open              *)

BreakerTargets == {"anthropic", "openai"}   \* the providers calls are routed to

\* the error the wrapped provider's Complete fails with: a 500 of the backend
BreakerErrors == {wrapError(ChatP, [typed |-> TRUE, status |-> 500])}

NoCounts == [requests |-> 0, cs |-> 0, cf |-> 0]

\* Settings.MaxRequests: maxFailures, and gobreaker takes 0 as 1
maxRequests == IF cbMaxFailures = 0 THEN 1 ELSE cbMaxFailures

\* a breaker that trips one failure earlier
ReadyToTripEarly(counts) == counts.cf >= cbMaxFailures

\* a breaker that trips one failure later
ReadyToTripLate(counts) == counts.cf > cbMaxFailures + 1

\* Settings.ReadyToTrip
ReadyToTrip(counts) == counts.cf > cbMaxFailures

\* toNewGeneration: the counts are cleared and the expiry is set anew
toNewGeneration(c) ==
    [c EXCEPT !.generation = @ + 1, !.counts = NoCounts, !.expired = FALSE]

setState(c, st) ==
    IF c.state = st THEN c ELSE toNewGeneration([c EXCEPT !.state = st])

\* currentState: the closed breaker starts a new generation when the Interval
\* has passed, the open breaker becomes half-open when the Timeout has passed
currentState(c) ==
    CASE c.state = "closed" /\ c.expired -> toNewGeneration(c)
      [] c.state = "open" /\ c.expired   -> setState(c, "half-open")
      [] OTHER                           -> c

\* CircuitBreakerMiddleware.State(): what m.cb.State() reports
State == currentState(cb).state

\* beforeRequest: the breaker after it, and the error it rejects the call with
beforeRequest(c) ==
    LET n == currentState(c)
    IN  IF n.state = "open" THEN [cb |-> n, err |-> "ErrOpenState"]
        ELSE IF n.state = "half-open" /\ n.counts.requests >= maxRequests
             THEN [cb |-> n, err |-> "ErrTooManyRequests"]
        ELSE [cb |-> [n EXCEPT !.counts.requests = @ + 1], err |-> ""]

onSuccess(c) ==
    LET n == [c EXCEPT !.counts.cs = @ + 1, !.counts.cf = 0]
    IN  CASE c.state = "closed"    -> n
          [] c.state = "half-open" ->
               IF n.counts.cs >= maxRequests THEN setState(n, "closed") ELSE n
          [] OTHER                 -> c

onFailure(c) ==
    LET n == [c EXCEPT !.counts.cf = @ + 1, !.counts.cs = 0]
    IN  CASE c.state = "closed"    ->
               IF ReadyToTrip(n.counts) THEN setState(n, "open") ELSE n
          [] c.state = "half-open" -> setState(c, "open")
          [] OTHER                 -> c

\* afterRequest: a result of an earlier generation is dropped
afterRequest(c, before, success) ==
    LET n == currentState(c)
    IN  IF n.generation # before THEN n
        ELSE IF success THEN onSuccess(n) ELSE onFailure(n)

\* if err == gobreaker.ErrOpenState || err == gobreaker.ErrTooManyRequests
\*     { return nil, llmrouter.ErrCircuitOpen }
breakerError(err) ==
    IF err \in {"ErrOpenState", "ErrTooManyRequests"} THEN ErrCircuitOpen
    ELSE Sentinel(err)

FreeCall == [pc |-> "free", tgt |-> "", op |-> "", gen |-> 0,
             pre |-> "", late |-> FALSE, admit |-> ""]

NoCall == [tgt |-> "", op |-> "", pre |-> "", late |-> FALSE, admit |-> "",
           gen |-> 0, counted |-> FALSE, invoked |-> FALSE, res |-> "",
           err |-> Nil, after |-> "", ends |-> ""]

\* cbSeen: returned, the number of calls that returned; streak, how many calls
\* in a row, up to the last, were admitted by the closed breaker and failed;
\* genStreak, how many of these in a row began and ended in the breaker's
\* generation of the last; failed, the targets a call to which has failed;
\* failures, the number of calls that failed; sinceCounted, the number of calls
\* that failed since the last successful call the breaker counted;
\* onlyStreamErrors, every call so far returned a channel that then delivered
\* an Error event
NothingSeen == [returned |-> 0, streak |-> 0, genStreak |-> 0, failed |-> {},
                failures |-> 0, sinceCounted |-> 0, onlyStreamErrors |-> TRUE]

See(call) ==
    LET fails == call.res = "fail" /\ call.admit = "closed"
    IN  [returned |-> cbSeen.returned + 1,
         streak |-> IF fails THEN cbSeen.streak + 1 ELSE 0,
         genStreak |-> IF fails /\ call.counted
                       THEN (IF cbLast.gen = call.gen THEN cbSeen.genStreak + 1 ELSE 1)
                       ELSE 0,
         failed |-> IF call.res = "fail" THEN cbSeen.failed \cup {call.tgt}
                    ELSE cbSeen.failed,
         failures |-> IF call.res = "fail" THEN cbSeen.failures + 1 ELSE cbSeen.failures,
         sinceCounted |-> IF call.res = "ok" /\ call.counted THEN 0
                          ELSE IF call.res = "fail" THEN cbSeen.sinceCounted + 1
                          ELSE cbSeen.sinceCounted,
         onlyStreamErrors |-> cbSeen.onlyStreamErrors /\ call.ends = "Error"]

InFlight == {s \in 1..MaxInFlight : cbCalls[s].pc = "inner"}

\* what the caller sees of a call that beforeRequest rejects
Rejected(tgt, op, b) ==
    [tgt |-> tgt, op |-> op, pre |-> cb.state, late |-> cb.expired,
     admit |-> b.cb.state, gen |-> b.cb.generation, counted |-> FALSE,
     invoked |-> FALSE, res |-> "rejected", err |-> breakerError(b.err),
     after |-> b.cb.state, ends |-> ""]

\* circuitBreakerProvider.Complete / Stream is called: cb.Execute runs
\* beforeRequest, and either rejects the call or calls the wrapped provider
BreakerCall(tgt, op) ==
    /\ Cardinality(InFlight) < MaxInFlight
    /\ cbSeen.returned + Cardinality(InFlight) < MaxBreakerCalls
    /\ LET b == beforeRequest(cb)
           s == CHOOSE x \in 1..MaxInFlight :
                    /\ cbCalls[x].pc = "free"
                    /\ \A y \in 1..(x - 1) : cbCalls[y].pc = "inner"
       IN  /\ cb' = b.cb
           /\ IF b.err # ""
              THEN /\ cbLast' = Rejected(tgt, op, b)
                   /\ cbSeen' = See(Rejected(tgt, op, b))
                   /\ UNCHANGED cbCalls
              ELSE /\ cbCalls' = [cbCalls EXCEPT ![s] =
                         [pc |-> "inner", tgt |-> tgt, op |-> op, gen |-> b.cb.generation,
                          pre |-> cb.state, late |-> cb.expired, admit |-> b.cb.state]]
                   /\ UNCHANGED <<cbLast, cbSeen>>
    /\ UNCHANGED cbMaxFailures
    /\ UNCHANGED nonBreakerVars

\* what the caller sees of the call in slot s when the wrapped provider returns
Returned(s, res, err) ==
    [tgt |-> cbCalls[s].tgt, op |-> cbCalls[s].op, pre |-> cbCalls[s].pre,
     late |-> cbCalls[s].late, admit |-> cbCalls[s].admit, gen |-> cbCalls[s].gen,
     counted |-> currentState(cb).generation = cbCalls[s].gen,
     invoked |-> TRUE, res |-> res, err |-> err,
     after |-> afterRequest(cb, cbCalls[s].gen, err = Nil).state, ends |-> ""]

\* how the channel of a Stream call ends after Stream has returned it; a
\* Complete call has no channel
StreamEnds(op) == IF op = "Stream" THEN {"Done", "Error"} ELSE {""}

\* a wrapper that reports a stream as failed when its channel ends in Error
executeErrOfChannel(ends) == IF ends = "Error" THEN "failed" ELSE ""

\* the err of the function cb.Execute runs, when the wrapped provider returned
\* a Response or a channel: p.Provider.Stream has returned (ch, nil) before
\* the channel delivers anything
executeErr(ends) == ""

\* the wrapped provider returns a Response, or a channel (an adapter's Stream
\* always does) which later ends as ends: afterRequest with the success of
\* the function Execute ran, and the result is passed on
BreakerInnerSucceeds(s, ends) ==
    /\ cbCalls[s].pc = "inner"
    /\ ends \in StreamEnds(cbCalls[s].op)
    /\ cb' = afterRequest(cb, cbCalls[s].gen, executeErr(ends) = "")
    /\ cbLast' = [Returned(s, "ok", Nil) EXCEPT !.ends = ends]
    /\ cbSeen' = See([Returned(s, "ok", Nil) EXCEPT !.ends = ends])
    /\ cbCalls' = [cbCalls EXCEPT ![s] = FreeCall]
    /\ UNCHANGED cbMaxFailures
    /\ UNCHANGED nonBreakerVars

\* the wrapped provider's Complete returns an error: afterRequest with failure,
\* and the error is passed on
BreakerInnerFails(s, err) ==
    /\ cbCalls[s].pc = "inner" /\ cbCalls[s].op = "Complete"
    /\ cb' = afterRequest(cb, cbCalls[s].gen, FALSE)
    /\ cbLast' = Returned(s, "fail", err)
    /\ cbSeen' = See(Returned(s, "fail", err))
    /\ cbCalls' = [cbCalls EXCEPT ![s] = FreeCall]
    /\ UNCHANGED cbMaxFailures
    /\ UNCHANGED nonBreakerVars

\* Interval (60 s) passes on the closed breaker
IntervalElapses ==
    /\ cb.state = "closed" /\ ~cb.expired
    /\ cb' = [cb EXCEPT !.expired = TRUE]
    /\ UNCHANGED <<cbMaxFailures, cbCalls, cbLast, cbSeen>>
    /\ UNCHANGED nonBreakerVars

\* Timeout (the cool-down) passes on the open breaker
CooldownElapses ==
    /\ cb.state = "open" /\ ~cb.expired
    /\ cb' = [cb EXCEPT !.expired = TRUE]
    /\ UNCHANGED <<cbMaxFailures, cbCalls, cbLast, cbSeen>>
    /\ UNCHANGED nonBreakerVars

\* gobreaker.NewCircuitBreaker: closed, first generation
BreakerNew ==
    /\ cb = [state |-> "closed", generation |-> 1, counts |-> NoCounts, expired |-> FALSE]
    /\ cbCalls = [s \in 1..MaxInFlight |-> FreeCall]
    /\ cbLast = NoCall /\ cbSeen = NothingSeen

\* NewCircuitBreakerMiddleware(name, maxFailures, timeout)
BreakerInit ==
    /\ cbMaxFailures \in 0..MaxThreshold
    /\ BreakerNew

\* the breaker variables while another part of the program is looked at
BreakerUnused ==
    /\ cbMaxFailures = 0
    /\ BreakerNew

BreakerNext ==
    \/ \E t \in BreakerTargets, op \in {"Complete", "Stream"} : BreakerCall(t, op)
    \/ \E s \in 1..MaxInFlight, ends \in {"", "Done", "Error"} : BreakerInnerSucceeds(s, ends)
    \/ \E s \in 1..MaxInFlight, e \in BreakerErrors : BreakerInnerFails(s, e)
    \/ IntervalElapses
    \/ CooldownElapses

-----------------------------------------------------------------------------
(* Goroutines sharing one Router: which fields each method touches, and      *)
(* under which lock (src/unnamed/part_004)                                   *)

Callers == {"c1", "c2", "c3"}   \* goroutines in Complete / Route / Stream
Mutators == {"w1", "w2"}     \* goroutines in RegisterProvider, MapModel, ...

\* the field each mutating method assigns
MutatedField ==
    [RegisterProvider |-> "providers", MapModel |-> "modelMap",
     SetFallbacks |-> "fallbacks", AddMiddleware |-> "middleware"]

\* sync.RWMutex: RLock waits while a goroutine holds the lock exclusively
CanRLock == mu.writer = ""
\* Lock waits while any goroutine holds the lock
CanLock == mu.writer = "" /\ mu.readers = {}

\* resolveProvider: r.mu.RLock(), then the reads of r.providers and r.modelMap
ResolveProviderBegins(g) ==
    /\ gPc[g] = "idle" /\ CanRLock
    /\ mu' = [mu EXCEPT !.readers = @ \cup {g}]
    /\ gPc' = [gPc EXCEPT ![g] = "resolveProvider"]
    /\ gField' = [gField EXCEPT ![g] = {"providers", "modelMap"}]
    /\ UNCHANGED nonLockVars

\* resolveProvider returns (deferred r.mu.RUnlock()); on an error Complete /
\* Route return at once, else they go on to buildChain
ResolveProviderReturns(g, found) ==
    /\ gPc[g] = "resolveProvider"
    /\ mu' = [mu EXCEPT !.readers = @ \ {g}]
    /\ gPc' = [gPc EXCEPT ![g] = IF found THEN "resolved" ELSE "idle"]
    /\ gField' = [gField EXCEPT ![g] = {}]
    /\ UNCHANGED nonLockVars

\* buildChain: the loop over r.middleware; it takes no lock
BuildChainBegins(g) ==
    /\ gPc[g] = "resolved"
    /\ gPc' = [gPc EXCEPT ![g] = "buildChain"]
    /\ gField' = [gField EXCEPT ![g] = {"middleware"}]
    /\ UNCHANGED mu
    /\ UNCHANGED nonLockVars

\* buildChain returns; handler.Complete / handler.Stream touch no Router field
BuildChainReturns(g) ==
    /\ gPc[g] = "buildChain"
    /\ gPc' = [gPc EXCEPT ![g] = "idle"]
    /\ gField' = [gField EXCEPT ![g] = {}]
    /\ UNCHANGED mu
    /\ UNCHANGED nonLockVars

\* a mutating method: r.mu.Lock(), then the assignment to its field
MutatorBegins(g, method) ==
    /\ gPc[g] = "idle" /\ CanLock
    /\ mu' = [mu EXCEPT !.writer = g]
    /\ gPc' = [gPc EXCEPT ![g] = method]
    /\ gField' = [gField EXCEPT ![g] = {MutatedField[method]}]
    /\ UNCHANGED nonLockVars

\* the mutating method returns (deferred r.mu.Unlock())
MutatorReturns(g) ==
    /\ g \in Mutators /\ gPc[g] # "idle"
    /\ mu' = [mu EXCEPT !.writer = ""]
    /\ gPc' = [gPc EXCEPT ![g] = "idle"]
    /\ gField' = [gField EXCEPT ![g] = {}]
    /\ UNCHANGED nonLockVars

LockInit ==
    /\ mu = [readers |-> {}, writer |-> ""]
    /\ gPc = [g \in Callers \cup Mutators |-> "idle"]
    /\ gField = [g \in Callers \cup Mutators |-> {}]

LockNext ==
    \/ \E g \in Callers : ResolveProviderBegins(g)
    \/ \E g \in Callers, found \in BOOLEAN : ResolveProviderReturns(g, found)
    \/ \E g \in Callers : BuildChainBegins(g)
    \/ \E g \in Callers : BuildChainReturns(g)
    \/ \E g \in Mutators, method \in DOMAIN MutatedField : MutatorBegins(g, method)
    \/ \E g \in Mutators : MutatorReturns(g)

-----------------------------------------------------------------------------
(* One call of a function that keeps no state *)

CallOfUnused == fn = "" /\ argv = <<>> /\ retv = <<>>

\* an error value is at hand
ClassifyInit == fn = "" /\ argv \in ClassifiedErrors /\ retv = <<>>

\* llmrouter.IsRetryable(err) is called
Classify ==
    /\ fn = ""
    /\ fn' = "IsRetryable" /\ retv' = IsRetryable(argv)
    /\ UNCHANGED argv
    /\ UNCHANGED nonCallOfVars

-----------------------------------------------------------------------------
(* Specifications *)

\* the Router
Init == RouterInit /\ RetryUnused /\ StreamInit /\ BreakerUnused /\ CallOfUnused /\ LockInit
Next == RouterNext
Spec == Init /\ [][Next]_vars

\* the retry wrapper around a provider
InitRetry == RouterInit /\ RetryInit /\ StreamInit /\ BreakerUnused /\ CallOfUnused /\ LockInit
NextRetry == RetryNext
SpecRetry == InitRetry /\ [][NextRetry]_vars

\* one stream through the wrappers
InitStream == RouterInit /\ RetryUnused /\ StreamInit /\ BreakerUnused /\ CallOfUnused /\ LockInit
NextStream == StreamNext
SpecStream == InitStream /\ [][NextStream]_vars

\* one stream, with the goroutines scheduled fairly: the adapter goroutine and
\* the timeout goroutine take a step they can take, and a consumer that has not
\* stopped receiving receives what is offered to it
ProducerSteps ==
    (\E e \in BackendNext : BackendEvent(e)) \/ BackendEnds
    \/ (\E b \in StreamErrors : BackendFails(b)) \/ ProducerCloses
ForwarderSteps ==
    TimeoutReceives \/ TimeoutSeesClosed \/ TimeoutCtxDone \/ TimeoutForwardCtxDone
ConsumerSteps ==
    ConsumerReceives \/ TimeoutForwards \/ TimeoutSendsError \/ ConsumerSeesClose
SpecStreamFair ==
    /\ InitStream /\ [][NextStream]_vars
    /\ WF_vars(ProducerSteps) /\ WF_vars(ForwarderSteps) /\ WF_vars(ConsumerSteps)

\* calls through one circuit breaker middleware
InitBreaker == RouterInit /\ RetryUnused /\ StreamInit /\ BreakerInit /\ CallOfUnused /\ LockInit
NextBreaker == BreakerNext
SpecBreaker == InitBreaker /\ [][NextBreaker]_vars

\* IsRetryable on one error
InitClassify ==
    RouterInit /\ RetryUnused /\ StreamInit /\ BreakerUnused /\ ClassifyInit /\ LockInit
NextClassify == Classify
SpecClassify == InitClassify /\ [][NextClassify]_vars

\* llmrouter.Message values: a system prompt, user texts, an assistant reply
\* with or without tool calls, a tool result
RequestMessages ==
    {[role |-> "system", content |-> "s", calls |-> FALSE],
     [role |-> "user", content |-> "a", calls |-> FALSE],
     [role |-> "user", content |-> "b", calls |-> FALSE],
     [role |-> "assistant", content |-> "c", calls |-> FALSE],
     [role |-> "assistant", content |-> "c", calls |-> TRUE],
     [role |-> "tool", content |-> "r", calls |-> FALSE]}

\* the genai.Content convertHistory builds of a message that is not a system
\* message: its role, and its parts (text, function calls, function response)
genaiContent(msg) ==
    CASE msg.role = "user" ->
            [role |-> "user", parts |-> <<[text |-> msg.content]>>]
      [] msg.role = "assistant" ->
            [role |-> "model",
             parts |-> (IF msg.content # "" THEN <<[text |-> msg.content]>> ELSE <<>>)
                       \o (IF msg.calls THEN <<[call |-> "f"]>> ELSE <<>>)]
      [] msg.role = "tool" ->
            [role |-> "function", parts |-> <<[response |-> msg.content]>>]

\* the history after the loop of convertHistory has handled msgs[1..i]
RECURSIVE historyAfter(_, _)
historyAfter(msgs, i) ==
    IF i = 0 THEN <<>>
    ELSE LET msg == msgs[i]
             history == historyAfter(msgs, i - 1)
         IN  CASE msg.role = "system" -> history
               [] msg.role = "user" ->
                     IF i = Len(msgs) THEN history
                     ELSE Append(history, genaiContent(msg))
               [] msg.role = "assistant" ->
                     IF Len(genaiContent(msg).parts) > 0
                     THEN Append(history, genaiContent(msg))
                     ELSE history
               [] msg.role = "tool" -> Append(history, genaiContent(msg))

\* convertHistory(msgs): the history and lastUserMsg
convertHistory(msgs) ==
    [history |-> historyAfter(msgs, Len(msgs)),
     lastUserMsg |-> IF Len(msgs) > 0 /\ msgs[Len(msgs)].role = "user"
                     THEN msgs[Len(msgs)].content ELSE ""]

\* a request's message list is at hand
HistoryInit ==
    /\ fn = "" /\ retv = <<>>
    /\ argv \in UNION {[1..n -> RequestMessages] : n \in 0..MaxMsgs}

\* Provider.Complete / Provider.Stream: convertHistory(req.Messages), the
\* history given to the chat and lastMsg sent as the turn
ConvertHistory ==
    /\ fn = ""
    /\ fn' = "convertHistory" /\ retv' = convertHistory(argv)
    /\ UNCHANGED argv
    /\ UNCHANGED nonCallOfVars

InitHistory ==
    RouterInit /\ RetryUnused /\ StreamInit /\ BreakerUnused /\ HistoryInit /\ LockInit
NextHistory == ConvertHistory
SpecHistory == InitHistory /\ [][NextHistory]_vars

\* the pure function calculateBackoff over its inputs
InitBackoff ==
    RouterInit /\ BackoffInit /\ StreamInit /\ BreakerUnused /\ CallOfUnused /\ LockInit
NextBackoff == \E attempt \in 1..MaxBackoffAttempts : CalculateBackoff(attempt)
SpecBackoff == InitBackoff /\ [][NextBackoff]_vars

\* goroutines sharing one Router
InitLock ==
    RouterInit /\ RetryUnused /\ StreamInit /\ BreakerUnused /\ CallOfUnused /\ LockInit
NextLock == LockNext
SpecLock == InitLock /\ [][NextLock]_vars

-----------------------------------------------------------------------------
(* Claims about the Router, checked under Spec *)

\* the model string M is resolvable: one of the steps 2, 3, 4 finds a provider
Mapped(M) == M \in DOMAIN modelMap /\ modelMap[M] \in DOMAIN providers
Registered(M) == M \in DOMAIN providers
Declared(M) == \E k \in DOMAIN providers : Declares(providers[k], M)
Resolvable(M) == Mapped(M) \/ Registered(M) \/ Declared(M)

\* a call has been made and resolveProvider has returned
Resolved == rPhase # "idle"

\* C4: resolution precedence. With a non-empty registry the router selects the
\* provider named by modelMap[M] when that name is registered; else the provider
\* registered as M; else a provider whose Models() holds M; and it selects a
\* provider only when one of the three applies.
C4_ResolutionPrecedence ==
    (Resolved /\ DOMAIN providers # {}) =>
        /\ (rTarget.err = Nil) <=> Resolvable(rModel)
        /\ rTarget.err = Nil =>
             /\ rTarget.key \in DOMAIN providers
             /\ rTarget.p = providers[rTarget.key]
             /\ IF Mapped(rModel) THEN rTarget.key = modelMap[rModel]
                ELSE IF Registered(rModel) THEN rTarget.key = rModel
                ELSE Declares(providers[rTarget.key], rModel)

\* C4 witness: the model map wins although M is also the registered name of
\* another provider, which moreover declares M
C4_Witness ==
    /\ rPhase = "done" /\ rTarget.err = Nil
    /\ Mapped(rModel) /\ Registered(rModel) /\ modelMap[rModel] # rModel
    /\ Declares(providers[rModel], rModel)
    /\ rTarget.key = modelMap[rModel]
    /\ rTarget.p # providers[rModel]

\* C5: with an empty registry every Complete and Stream call fails with
\* ErrNoProviders, returns no channel and no response, and enters neither a
\* middleware nor a provider.
C5_EmptyRegistry ==
    (Resolved /\ DOMAIN providers = {}) =>
        /\ rPhase = "done"
        /\ rResult.err = ErrNoProviders
        /\ ~rResult.ch /\ rResult.resp = NoResponse
        /\ rTrace = <<>> /\ rHandler = <<>>

\* C5 witness: a Stream call on a router with middleware and no provider
C5_Witness ==
    /\ rPhase = "done" /\ rOp = "Stream" /\ DOMAIN providers = {}
    /\ Len(middleware) = 2 /\ DOMAIN modelMap # {}
    /\ rResult.err = ErrNoProviders

\* C6: with a non-empty registry and a model that is not mapped to a registered
\* provider, is no registered name and is declared by no provider, the call
\* fails with an error that is ErrUnknownModel and carries the model string; no
\* layer is entered and no channel is returned.
C6_UnknownModel ==
    (Resolved /\ DOMAIN providers # {} /\ ~Resolvable(rModel)) =>
        /\ rPhase = "done"
        /\ ErrorsIs(rResult.err, ErrUnknownModel)
        /\ rResult.err.msg = ErrUnknownModel.msg \o <<rModel>>
        /\ ~rResult.ch /\ rResult.resp = NoResponse
        /\ rTrace = <<>>

\* C6 witness: the model is mapped, but to a name that is not registered
C6_Witness ==
    /\ rPhase = "done" /\ DOMAIN providers # {}
    /\ rModel \in DOMAIN modelMap /\ modelMap[rModel] \notin DOMAIN providers
    /\ ErrorsIs(rResult.err, ErrUnknownModel)

\* C7: every successful Complete response and every Done event of a stream
\* names, in Response.Provider, the name the producing provider is registered
\* under.
C7_ProviderIsRegisteredName ==
    (rPhase = "done" /\ rResult.err = Nil) => rResult.resp.provider = rTarget.key

\* the layers a call passes when the chain is the middleware list in
\* registration order: m1 .. mn in, the provider, mn .. m1 out
ExpectedTrace ==
    [i \in 1..Len(middleware) |-> <<"enter", middleware[i]>>]
    \o <<<<"provider", rTarget.key>>>>
    \o [i \in 1..Len(middleware) |->
           <<"exit", middleware[Len(middleware) + 1 - i]>>]

\* C8: a call enters the middleware in registration order, the first-registered
\* outermost, then the resolved provider, and the result travels back in the
\* reverse order.
C8_FirstRegisteredOutermost ==
    (Resolved /\ rTarget.err = Nil) =>
        /\ Len(rTrace) <= Len(ExpectedTrace)
        /\ rTrace = SubSeq(ExpectedTrace, 1, Len(rTrace))
        /\ rPhase = "done" => rTrace = ExpectedTrace

\* C8 witness: a finished call through two different middleware
C8_Witness ==
    /\ rPhase = "done" /\ rTarget.err = Nil
    /\ Len(middleware) = 2 /\ middleware[1] # middleware[2]
    /\ rTrace[1] = <<"enter", middleware[1]>>
    /\ rTrace[Len(rTrace)] = <<"exit", middleware[1]>>

\* C15: a call made with a context that is already cancelled, for a model that
\* resolves, fails with an error that is ErrContextCanceled, and the adapter's
\* backend call is not started.
C15_CancelledBeforeDispatch ==
    (rPhase = "done" /\ rCtx = "canceled" /\ rTarget.err = Nil) =>
        /\ ErrorsIs(rResult.err, ErrContextCanceled)
        /\ \A i \in 1..Len(rTrace) : rTrace[i][1] # "provider"

\* the sentinel the claim assigns to the HTTP status of a backend error
ExpectedCause(status) ==
    CASE status = 400          -> "ErrInvalidRequest"
      [] status \in {401, 403} -> "ErrAuthFailed"
      [] status = 429          -> "ErrRateLimited"
      [] status \in 500..599   -> "ErrProviderError"
      [] OTHER                 -> "raw"

\* C20: a backend error with an HTTP status comes back from Complete as an
\* APIError of that status whose cause is the sentinel of the status: 400
\* ErrInvalidRequest, 401 and 403 ErrAuthFailed, 429 ErrRateLimited, 5xx
\* ErrProviderError; this for every adapter.
C20_StatusMapsToSentinel ==
    (rPhase = "done" /\ rResult.berr # <<>> /\ rResult.berr[1].typed) =>
        /\ rResult.err.api
        /\ rResult.err.cause = ExpectedCause(rResult.berr[1].status)

\* C28: when the request's model is the empty string, or is the name of the
\* resolved provider (the name it is registered under, by which step 3
\* resolved it, or its Name()), the adapter's backend request carries the
\* adapter's default model.
C28_DefaultModelSubstituted ==
    (rResult.sent # <<>>
     /\ (rModel = ""
         \/ rModel = Name(rTarget.p)
         \/ (rModel = rTarget.key /\ ~Mapped(rModel)))) =>
        rResult.sent = <<rTarget.p.model>>

-----------------------------------------------------------------------------
(* Claims about the retry wrapper, checked under SpecRetry *)

\* every attempt so far failed, with an error the classifier takes as retryable
AllFailedRetryably ==
    \A i \in 1..Len(tCalls) : tCalls[i] # Nil /\ retryable(tCalls[i])

\* the providers the call has invoked
ProvidersInvoked == SelectSeq(rTrace, LAMBDA e : e[1] = "provider")

\* modelMap[M] names a provider that is not registered
MappedToUnregistered(M) == M \in DOMAIN modelMap /\ modelMap[M] \notin DOMAIN providers

\* C37: no call returns ErrUnknownProvider. When modelMap[M] names a provider
\* that is not registered, resolution goes on to the provider registered as M,
\* else to a provider whose Models() holds M, and fails with ErrUnknownModel
\* when there is neither.
C37_NeverUnknownProvider ==
    Resolved =>
        /\ ~ErrorsIs(rTarget.err, ErrUnknownProvider)
        /\ ~ErrorsIs(rResult.err, ErrUnknownProvider)
        /\ (DOMAIN providers # {} /\ MappedToUnregistered(rModel)) =>
              IF Registered(rModel) THEN rTarget.err = Nil /\ rTarget.key = rModel
              ELSE IF Declared(rModel)
                   THEN rTarget.err = Nil /\ Declares(providers[rTarget.key], rModel)
              ELSE ErrorsIs(rTarget.err, ErrUnknownModel)

\* C37 witness: the model is mapped to a name that is not registered, and the
\* call went to the provider registered under the model string itself
C37_Witness ==
    /\ rPhase = "done" /\ MappedToUnregistered(rModel) /\ Registered(rModel)
    /\ rTarget.err = Nil /\ rTarget.key = rModel
    /\ ProvidersInvoked = <<<<"provider", rModel>>>>

\* C34: a fallback list changes nothing. With a list set, a call resolves as
\* the registry, the model map and the request alone decide, fails when these
\* find no provider, invokes the resolved provider and no other, and returns
\* that provider's error when it fails.
C34_FallbacksUnobservable ==
    (Resolved /\ fallbacks # <<>>) =>
        /\ (rTarget.err = Nil) <=> (DOMAIN providers # {} /\ Resolvable(rModel))
        /\ rTarget.err = Nil =>
             /\ rTarget.p = providers[rTarget.key]
             /\ IF Mapped(rModel) THEN rTarget.key = modelMap[rModel]
                ELSE IF Registered(rModel) THEN rTarget.key = rModel
                ELSE Declares(providers[rTarget.key], rModel)
        /\ Len(ProvidersInvoked) <= 1
        /\ \A i \in 1..Len(ProvidersInvoked) :
               ProvidersInvoked[i] = <<"provider", rTarget.key>>
        /\ (rPhase = "done" /\ rResult.berr # <<>>) =>
               /\ rResult.err = wrapError(rTarget.p, rResult.berr[1])
               /\ rResult.resp = NoResponse /\ ~rResult.ch

\* C34 witness: the resolved provider failed while the fallback list names
\* another registered provider, which was not invoked
C34_Witness ==
    /\ rPhase = "done" /\ rOp = "Complete" /\ rResult.berr # <<>>
    /\ fallbacks = <<"anthropic", "openai">>
    /\ rTarget.key = "openai" /\ "anthropic" \in DOMAIN providers
    /\ providers["anthropic"] # providers["openai"]
    /\ ProvidersInvoked = <<<<"provider", "openai">>>>

\* C9: with N >= 1 attempts, every attempt failing retryably and no
\* cancellation, the wrapped call is made exactly N times and the wrapper
\* returns an error that is ErrMaxRetriesExceed and reports the last error.
C9_ExactlyNAttempts ==
    (tPhase = "done" /\ tMax >= 1 /\ tCtx = "live" /\ AllFailedRetryably) =>
        /\ Len(tCalls) = tMax
        /\ ErrorsIs(tResult.err, ErrMaxRetriesExceed)
        /\ tResult.err.msg = ErrMaxRetriesExceed.msg \o tCalls[tMax].msg

\* C9 witness: three attempts on a backend that always answers 429
C9_Witness ==
    /\ tPhase = "done" /\ tMax = 3 /\ tCtx = "live" /\ Len(tCalls) = 3
    /\ \A i \in 1..3 : tCalls[i].api /\ tCalls[i].status = 429
    /\ ErrorsIs(tResult.err, ErrMaxRetriesExceed)

\* C10: when an attempt fails with an error the classifier reports as
\* non-retryable, that attempt is the last, no backoff wait follows it, and the
\* wrapper returns that very error.
C10_NonRetryableFailsAtOnce ==
    \A i \in 1..Len(tCalls) :
        (tCalls[i] # Nil /\ ~retryable(tCalls[i])) =>
            /\ i = Len(tCalls)
            /\ Len(tSleeps) = i - 1
            /\ tPhase = "done"
            /\ tResult.err = tCalls[i]
            /\ ~ErrorsIs(tResult.err, ErrMaxRetriesExceed)

\* C10 witness: the second of three attempts fails with 401
C10_Witness ==
    /\ tPhase = "done" /\ tMax = 3 /\ Len(tCalls) = 2
    /\ retryable(tCalls[1]) /\ tCalls[2].api /\ tCalls[2].status = 401
    /\ tResult.err = tCalls[2]

\* all attempts before the last failed, each with an error taken as retryable
EarlierFailedRetryably ==
    \A i \in 1..(Len(tCalls) - 1) : tCalls[i] # Nil /\ retryable(tCalls[i])

\* C11: when the k-th attempt is the first that succeeds, after k - 1 retryable
\* failures, the wrapper returns its result with a nil error, the wrapped call
\* was made exactly k <= N times, nothing follows the success, and one backoff
\* wait lies between each two consecutive attempts (k - 1 waits in all).
C11_FirstSuccessReturned ==
    /\ \A i \in 1..Len(tCalls) : tCalls[i] = Nil => i = Len(tCalls)
    /\ (Len(tCalls) >= 1 /\ tCalls[Len(tCalls)] = Nil /\ EarlierFailedRetryably) =>
          /\ tPhase = "done"
          /\ tResult.ok /\ tResult.err = Nil
          /\ Len(tCalls) <= tMax
          /\ Len(tSleeps) = Len(tCalls) - 1

\* C11 witness: a 500, then success on the second of three attempts, one wait
C11_Witness ==
    /\ tPhase = "done" /\ tMax = 3 /\ Len(tCalls) = 2
    /\ tCalls[1].api /\ tCalls[1].status = 500 /\ tCalls[2] = Nil
    /\ tResult.ok /\ Len(tSleeps) = 1

\* C22: with the default classifier, an attempt the circuit breaker rejected
\* with ErrCircuitOpen is the last attempt of the call, and the retry wrapper
\* returns ErrCircuitOpen itself to the caller.
C22_CircuitOpenNotRetried ==
    tClassifier = "IsRetryable" =>
        \A i \in 1..Len(tCalls) :
            tCalls[i] = ErrCircuitOpen =>
                /\ i = Len(tCalls)
                /\ tPhase = "done"
                /\ tResult.err = ErrCircuitOpen

\* what an adapter returns for a call whose ctx ran out: wrapError of the
\* client's error, which is no typed API error
TimedOutError == wrapError(ChatP, [typed |-> FALSE, status |-> 0])

\* the parts of C30, for a timeout wrapper around the retry wrapper ...
OneDeadlineForAllAttempts ==
    tTimeout = "outer" => \A i \in 1..Len(tStarts) : tStarts[i].ctx = "call"
NoAttemptAfterDeadline ==
    tTimeout = "outer" => \A i \in 2..Len(tStarts) : tStarts[i].state # "deadline"
\* ... and for a timeout wrapper inside the retry wrapper
FreshDeadlinePerAttempt ==
    tTimeout = "inner" =>
        \A i \in 1..Len(tStarts) :
            /\ tStarts[i].ctx = "attempt"
            /\ tCtx = "live" => tStarts[i].state = "live"
TimedOutAttemptRetried ==
    (/\ tTimeout = "inner" /\ tClassifier = "IsRetryable"
     /\ tPhase = "done" /\ tCtx = "live"
     /\ tAttemptCtx = "deadline"
     /\ Len(tCalls) >= 1 /\ tCalls[Len(tCalls)] = TimedOutError) =>
        Len(tCalls) = tMax

\* C30: with Timeout registered before Retry, every attempt runs under the
\* one context made at the call, and no attempt after the first is started
\* once its deadline has passed; with Retry registered before Timeout, every attempt runs under
\* a context of its own whose deadline starts at that attempt, and the wrapper
\* does not return on an attempt that timed out while attempts remain.
C30_TimeoutRetryCompositions ==
    /\ OneDeadlineForAllAttempts
    /\ NoAttemptAfterDeadline
    /\ FreshDeadlinePerAttempt
    /\ TimedOutAttemptRetried

\* C32: when the context becomes done while the retry wrapper waits between
\* two attempts, the wrapper starts no further attempt: every attempt after
\* the first was started under a live context, or under one that was done
\* before the wait began.
C32_CancelDuringSleepAborts ==
    tCtxDoneIn = "sleep" => \A i \in 2..Len(tStarts) : tStarts[i].state = "live"

\* C38: a wrapper with maxAttempts <= 0 never invokes the wrapped provider:
\* Complete and Stream return at once, without an attempt or a wait, an error
\* that is ErrMaxRetriesExceed and has no underlying error.
C38_NoAttemptsConfigured ==
    tMax <= 0 =>
        /\ tPhase \in {"idle", "head", "done"}
        /\ tCalls = <<>> /\ tStarts = <<>> /\ tSleeps = <<>>
        /\ tPhase = "done" =>
              /\ ~tResult.ok
              /\ ErrorsIs(tResult.err, ErrMaxRetriesExceed)
              /\ tLastErr = Nil
              /\ tResult.err = Errorf(ErrMaxRetriesExceed, <<"<nil>">>)

\* C38 witness: Stream on a wrapper made with maxAttempts = -1 has returned
C38_Witness ==
    /\ tPhase = "done" /\ tOp = "Stream" /\ tMax < 0
    /\ ErrorsIs(tResult.err, ErrMaxRetriesExceed) /\ tCalls = <<>>

\* C19: Stream retries only the establishing call: every inner call before the
\* one that returned a channel failed, and once a channel has been returned
\* the wrapper makes no further inner call and takes no further step, whatever
\* events, Error included, flow on that channel.
C19_OnlyEstablishmentRetried ==
    (tOp = "Stream" /\ tResult.ok) =>
        /\ tPhase = "done"
        /\ Len(tCalls) = tAttempt + 1 /\ Len(tCalls) <= tMax
        /\ tCalls[Len(tCalls)] = Nil
        /\ \A i \in 1..(Len(tCalls) - 1) : tCalls[i] # Nil /\ retryable(tCalls[i])
        /\ Len(tSleeps) = Len(tCalls) - 1

\* C19 witness: the stream is established on the second of three attempts and
\* then delivers content and an Error event
C19_Witness ==
    /\ tOp = "Stream" /\ tResult.ok /\ tPhase = "done"
    /\ tMax = 3 /\ Len(tCalls) = 2 /\ tCalls[1] # Nil
    /\ tResult.events = <<"Content", "Error">>

-----------------------------------------------------------------------------
(* Claims about the circuit breaker wrapper, checked under SpecBreaker *)

\* a call made while the breaker is open and its cool-down has not elapsed is
\* rejected with ErrCircuitOpen, and the wrapped provider is not called
OpenFailsFast ==
    (cbLast.res # "" /\ cbLast.pre = "open" /\ ~cbLast.late) =>
        /\ cbLast.res = "rejected"
        /\ cbLast.err = ErrCircuitOpen
        /\ ~cbLast.invoked

\* C12 as stated: once K+1 calls in a row, admitted by the closed breaker, have
\* failed, the breaker is open; and a call made while it is open and the
\* cool-down has not elapsed returns ErrCircuitOpen without the wrapped
\* provider being called.
C12_OpenAfterKPlusOneFailures ==
    /\ cbSeen.streak > cbMaxFailures => cbLast.after = "open"
    /\ OpenFailsFast

\* C12 amended: once K+1 calls in a row have failed that were all admitted and
\* all returned within one counting interval (generation) of the closed
\* breaker, the breaker is open; and a call made while it is open and the
\* cool-down has not elapsed returns ErrCircuitOpen without the wrapped
\* provider being called.
C12_OpenAfterKPlusOneInInterval ==
    /\ cbSeen.genStreak > cbMaxFailures => cbLast.after = "open"
    /\ OpenFailsFast

\* C12 witness: threshold 2, three failed calls, and the fourth call, a Stream,
\* is rejected by the open breaker
C12_Witness ==
    /\ cbMaxFailures = 2 /\ cbSeen.returned = 4
    /\ cbLast.res = "rejected" /\ cbLast.op = "Stream"
    /\ cbLast.pre = "open" /\ ~cbLast.late
    /\ cb.state = "open" /\ cbSeen.failed # {}

\* the closed breaker opens in this step
Trips == cb.state = "closed" /\ cb'.state = "open"

\* a call returns to its caller in this step
CallReturns == cbSeen'.returned = cbSeen.returned + 1

\* a call the wrapped provider failed returns the provider's own error
FailureIsBackendError ==
    (CallReturns /\ cbLast'.res = "fail") =>
        (cbLast'.err \in BreakerErrors /\ cbLast'.err # ErrCircuitOpen)

\* C35 as stated: the closed breaker opens only when more than K calls in a
\* row have failed; a failed call returns the backend's own error; and after a
\* successful call admitted by the closed breaker the consecutive-failure
\* count is zero.
C35_ClosedWithinThreshold ==
    [][/\ Trips => cbSeen'.streak > cbMaxFailures
       /\ FailureIsBackendError
       /\ (CallReturns /\ cbLast'.res = "ok" /\ cbLast'.admit = "closed") =>
              cb'.counts.cf = 0]_vars

\* C35 amended: the closed breaker opens only when more than K calls have
\* failed since the last successful call it counted (one that began and ended
\* in the breaker's current counting interval); a failed call returns the
\* backend's own error; and after a counted successful call the
\* consecutive-failure count is zero.
C35_ClosedWithinThresholdOfCounted ==
    [][/\ Trips => cbSeen'.sinceCounted > cbMaxFailures
       /\ FailureIsBackendError
       /\ (CallReturns /\ cbLast'.res = "ok" /\ cbLast'.counted) =>
              cb'.counts.cf = 0]_vars

\* C35 witness: threshold 1; a failure, a counted success and a second failure
\* have returned, two failures in total, and the breaker is closed
C35_Witness ==
    /\ cbMaxFailures = 1 /\ cbSeen.returned = 3 /\ cbSeen.failures = 2
    /\ cbSeen.sinceCounted = 1 /\ cbLast.res = "fail" /\ cbLast.err \in BreakerErrors
    /\ cb.state = "closed" /\ cb.counts.cf = 1

C13_ProbeDecides ==
    (cbLast.res # "" /\ cbLast.pre = "open" /\ cbLast.late) =>
        /\ cbLast.admit = "half-open"
        /\ cbLast.invoked
        /\ cbLast.res = "ok" => cbLast.after = "closed"
        /\ cbLast.res = "fail" => cbLast.after = "open"

\* C14: a call routed to a provider is rejected by the breaker only if a call
\* routed to that same provider has failed before.
C14_StatePerProvider ==
    cbLast.res = "rejected" => cbLast.tgt \in cbSeen.failed

-----------------------------------------------------------------------------
(* Claims about streams, checked under SpecStream *)

\* every goroutine of the stream has returned and closed its channel
ProducersTerminated == pPc = "closed" /\ (HasTimeout => fPc = "closed")

\* C16: once the consumer has stopped receiving and the context is cancelled or
\* past its deadline, the adapter goroutine and the timeout goroutine both
\* eventually return and close their channels (checked under SpecStreamFair).
C16_ProducersTerminate ==
    (cGone /\ sCtx # "live") ~> ProducersTerminated

\* an Error event made by the timeout wrapper carries ctx.Err() itself
WrapperError(ev) == ev.type = "Error" /\ ~ev.err.api
\* a terminal event of the wrapped stream
InnerTerminator(ev) == ev.type = "Done" \/ (ev.type = "Error" /\ ev.err.api)

\* C17: on a stream wrapped by the timeout middleware, an Error of the wrapper
\* is the last event and comes only when the inner stream has not delivered
\* its terminal event; and a stream that is closed without a terminal event
\* of the inner stream ends with the wrapper's Error carrying ctx.Err().
C17_DeadlineCoversStream ==
    HasTimeout =>
        /\ \A i \in 1..Len(delivered) :
              WrapperError(delivered[i]) =>
                  /\ i = Len(delivered)
                  /\ \A j \in 1..(i - 1) : ~InnerTerminator(delivered[j])
        /\ (cClosed /\ \A j \in 1..Len(delivered) : ~InnerTerminator(delivered[j])) =>
              /\ Len(delivered) >= 1
              /\ delivered[Len(delivered)] = ErrorEvent(CtxErr(sCtx))

\* C18: a backend failure arrives on the channel as an Error event only when
\* the backend stream had produced something before it failed (a failure
\* before that is the error result of Stream), and such an Error event is the
\* only terminal event and the last event.
C18_PreStreamErrorsSynchronous ==
    \A i \in 1..Len(delivered) :
        (delivered[i].type = "Error" /\ delivered[i].err.api) =>
            /\ bCount >= 1
            /\ i = Len(delivered)
            /\ \A j \in 1..(i - 1) : ~IsTerminator(delivered[j])

\* C1: the consumer of a stream receives exactly one terminal event (Done or
\* Error), it is the last event received, and the channel is then closed.
C1_OneTerminatorLast ==
    /\ \A i \in 1..Len(delivered) : IsTerminator(delivered[i]) => i = Len(delivered)
    /\ cClosed => /\ Len(delivered) >= 1
                  /\ IsTerminator(delivered[Len(delivered)])

RECURSIVE ContentOf(_)
\* the concatenation of the Content of the ContentDelta events of a sequence
ContentOf(evs) ==
    IF evs = <<>> THEN <<>>
    ELSE (IF Head(evs).type = "ContentDelta" THEN Head(evs).content ELSE <<>>)
         \o ContentOf(Tail(evs))

\* C2: in a stream that ends in Done, the Response of the Done event has a first
\* choice with a message, whose content is the concatenation of the content
\* deltas delivered before it.
C2_ContentConcatenation ==
    \A i \in 1..Len(delivered) :
        delivered[i].type = "Done" =>
            /\ Len(delivered[i].resp.choices) >= 1
            /\ delivered[i].resp.choices[1].message.present
            /\ delivered[i].resp.choices[1].message.content
                   = ContentOf(SubSeq(delivered, 1, i - 1))

RECURSIVE DeltasOf(_)
\* the partial tool calls of the ToolCallDelta events of a sequence, in order
DeltasOf(evs) ==
    IF evs = <<>> THEN <<>>
    ELSE (IF Head(evs).type = "ToolCallDelta" THEN Head(evs).tcs ELSE <<>>)
         \o DeltasOf(Tail(evs))

\* the group of a partial tool call: its index when it has one, else its id
GroupOf(tc) == IF tc.index # NoIndex THEN <<"index", tc.index>> ELSE <<"id", tc.id>>

RECURSIVE GroupArgs(_, _)
\* the concatenation of the argument fragments of one group
GroupArgs(tcs, g) ==
    IF tcs = <<>> THEN <<>>
    ELSE (IF GroupOf(Head(tcs)) = g THEN Head(tcs).args ELSE <<>>)
         \o GroupArgs(Tail(tcs), g)

\* the id of a group: the id of its first fragment
GroupId(tcs, g) ==
    LET first == CHOOSE j \in 1..Len(tcs) :
                     /\ GroupOf(tcs[j]) = g
                     /\ \A k \in 1..(j - 1) : GroupOf(tcs[k]) # g
    IN  tcs[first].id

\* C3: in a stream that ends in Done, for every tool call seen in the deltas
\* (grouped by index, or by id), the Done event's message holds a tool call of
\* that id whose arguments are the concatenation of the group's fragments.
C3_ToolArgsConcatenation ==
    \A i \in 1..Len(delivered) :
        delivered[i].type = "Done" =>
            LET tcs == DeltasOf(SubSeq(delivered, 1, i - 1))
                resp == delivered[i].resp
            IN  \A j \in 1..Len(tcs) :
                    /\ Len(resp.choices) >= 1
                    /\ resp.choices[1].message.present
                    /\ \E k \in 1..Len(resp.choices[1].message.toolCalls) :
                          /\ resp.choices[1].message.toolCalls[k].id
                                 = GroupId(tcs, GroupOf(tcs[j]))
                          /\ resp.choices[1].message.toolCalls[k].args
                                 = GroupArgs(tcs, GroupOf(tcs[j]))

-----------------------------------------------------------------------------
(* Claims about the final response of a stream, checked under SpecStream *)

\* the canonical finish reasons
CanonicalFinish == {"stop", "length", "tool_calls", "content_filter", ""}

\* the backend's word for termination at the token limit, and for termination
\* by its safety filter
NativeMaxTokens == {"length", "max_tokens", "MAX_TOKENS"}
NativeSafety == {"content_filter", "SAFETY"}

\* the message of the choice carries at least one tool call
HasToolCalls(choice) == choice.message.present /\ Len(choice.message.toolCalls) >= 1

\* C23: in the response of every Done event each choice's FinishReason is one
\* of the canonical five; when the backend reported termination at the token
\* limit it is "length", and when it reported safety termination it is
\* "content_filter" (a response with tool calls apart, whose reason is
\* "tool_calls").
C23_FinishReasonCanonical ==
    \A i \in 1..Len(delivered) :
        delivered[i].type = "Done" =>
            \A k \in 1..Len(delivered[i].resp.choices) :
                LET choice == delivered[i].resp.choices[k]
                IN  /\ choice.finish \in CanonicalFinish
                    /\ (bProto.finish \in NativeMaxTokens /\ ~HasToolCalls(choice)) =>
                          choice.finish = "length"
                    /\ (bProto.finish \in NativeSafety /\ ~HasToolCalls(choice)) =>
                          choice.finish = "content_filter"

\* C24: in the response of every Done event, a choice whose assistant message
\* carries at least one tool call has FinishReason "tool_calls".
C24_ToolCallsSetFinishReason ==
    \A i \in 1..Len(delivered) :
        delivered[i].type = "Done" =>
            \A k \in 1..Len(delivered[i].resp.choices) :
                HasToolCalls(delivered[i].resp.choices[k]) =>
                    delivered[i].resp.choices[k].finish = "tool_calls"

\* C25: in the response of every Done event, a choice whose FinishReason is
\* "tool_calls" has an assistant message with at least one tool call.
C25_FinishReasonHasToolCalls ==
    \A i \in 1..Len(delivered) :
        delivered[i].type = "Done" =>
            \A k \in 1..Len(delivered[i].resp.choices) :
                delivered[i].resp.choices[k].finish = "tool_calls" =>
                    HasToolCalls(delivered[i].resp.choices[k])

\* C26: the usage of the response of every Done event, when present, has
\* TotalTokens = PromptTokens + CompletionTokens.
C26_UsageTotals ==
    \A i \in 1..Len(delivered) :
        (delivered[i].type = "Done" /\ delivered[i].resp.usage.present) =>
            delivered[i].resp.usage.total =
                delivered[i].resp.usage.prompt + delivered[i].resp.usage.completion

\* C27: the response of every Done event carries usage exactly when the
\* backend reported usage on that stream.
C27_UsageIffReported ==
    \A i \in 1..Len(delivered) :
        delivered[i].type = "Done" =>
            (delivered[i].resp.usage.present <=> bProto.usage.present)

-----------------------------------------------------------------------------
(* Claims about the Router's lock, checked under SpecLock *)

\* C29: a goroutine of Complete / Stream / Route that is reading Router fields
\* holds mu shared, a goroutine that is assigning a Router field holds mu
\* exclusively, and no goroutine reads a field while another is writing it.
C29_ReadsAndWritesLocked ==
    /\ \A g \in Callers : gField[g] # {} => g \in mu.readers
    /\ \A g \in Mutators : gField[g] # {} => mu.writer = g
    /\ \A c \in Callers, w \in Mutators : gField[c] \cap gField[w] = {}

-----------------------------------------------------------------------------
(* Claims about IsRetryable, checked under SpecClassify *)

\* the error is, or unwraps to, one of the three sentinels named non-retryable
UnwrapsToNonRetryable(err) ==
    \/ ErrorsIs(err, ErrContextCanceled)
    \/ ErrorsIs(err, ErrAuthFailed)
    \/ ErrorsIs(err, ErrInvalidRequest)

\* C21 as stated: for a non-nil error IsRetryable returns false exactly when
\* the error unwraps to ErrContextCanceled, ErrAuthFailed or ErrInvalidRequest,
\* and true in every other case.
C21_FalseExactlyForThreeSentinels ==
    fn = "IsRetryable" => (retv = ~UnwrapsToNonRetryable(argv))

\* C21 amended: for a non-nil error IsRetryable returns false exactly when the
\* error unwraps to ErrContextCanceled, ErrAuthFailed or ErrInvalidRequest, or
\* is an APIError of status 400, 401 or 403; it returns true in every other
\* case, in particular for 429, any 5xx, ErrRateLimited and unknown errors.
C21_FalseForSentinelsAndClientStatus ==
    fn = "IsRetryable" =>
        (retv = ~(UnwrapsToNonRetryable(argv)
                  \/ (argv.api /\ argv.status \in {400, 401, 403})))

\* C21 witness: an APIError of status 401 around a raw backend error was found
\* non-retryable
C21_Witness ==
    /\ fn = "IsRetryable" /\ argv = APIError(401, "raw") /\ retv = FALSE

-----------------------------------------------------------------------------
(* Claims about the backoff delay *)

\* min(d * 2^n, cap) for positive d and cap, as a mathematical integer
RECURSIVE MinOfProduct(_, _, _)
MinOfProduct(d, n, cap) ==
    IF n <= 0 THEN (IF d > cap THEN cap ELSE d)
    ELSE LET h == MinOfProduct(d, n - 1, cap)
         IN  IF h = cap \/ h > cap \div 2 THEN cap ELSE 2 * h

\* C31: the wait before retry number a is min(baseDelay * 2^(a-1), maxDelay):
\* never negative, never above maxDelay, and no smaller than the wait before
\* any earlier retry.
C31_BackoffBounded ==
    fn = "calculateBackoff" =>
        LET a == argv[1]
            d == retv[1]
        IN  /\ d = MinOfProduct(tBase, a - 1, tMaxDelay)
            /\ d >= 0
            /\ d <= tMaxDelay
            /\ \A b \in 1..a : calculateBackoff(b) <= d

-----------------------------------------------------------------------------
(* Claims about the GenerativeChat history *)

\* the genai.Content values of the non-system messages among msgs[1..n]
RECURSIVE NonSystemBefore(_, _)
NonSystemBefore(msgs, n) ==
    IF n = 0 THEN <<>>
    ELSE IF msgs[n].role = "system" THEN NonSystemBefore(msgs, n - 1)
    ELSE Append(NonSystemBefore(msgs, n - 1), genaiContent(msgs[n]))

\* the position of the final user-role message of msgs, 0 if there is none
FinalUser(msgs) ==
    LET users == {i \in 1..Len(msgs) : msgs[i].role = "user"}
    IN  IF users = {} THEN 0 ELSE CHOOSE i \in users : \A j \in users : j <= i

\* C33: the turn is the content of the request's final user message and the
\* history is the non-system messages before it, in order, also when assistant
\* or tool messages follow that user message.
C33_TurnIsFinalUserMessage ==
    (fn = "convertHistory" /\ FinalUser(argv) > 0) =>
        /\ retv.lastUserMsg = argv[FinalUser(argv)].content
        /\ retv.history = NonSystemBefore(argv, FinalUser(argv) - 1)

-----------------------------------------------------------------------------
(* Claims about the timeout wrapper's output, checked under SpecStream *)

\* the Error events the timeout goroutine makes: ctx.Err() of a done context
TimeoutErrors == {ErrorEvent(CtxErr(c)) : c \in {"canceled", "deadline"}}

\* out is a prefix of inner, followed by nothing or by one Error of the wrapper
PrefixThenError(out, inner) ==
    \E k \in 0..Len(inner) :
        \/ out = SubSeq(inner, 1, k)
        \/ \E e \in TimeoutErrors : out = Append(SubSeq(inner, 1, k), e)

\* the timeout goroutine finds the inner channel closed while the context is live
TimeoutEndsLive == fPc = "select" /\ fPc' = "closed" /\ sCtx = "live"

\* C39: what the timeout wrapper delivers is a prefix of the inner provider's
\* events, in order and without repetition, followed by nothing or by an Error
\* the wrapper made; and when the inner stream ends with the context still
\* live, it is the inner provider's sequence exactly.
C39_OutputIsPrefixOfInner ==
    [][HasTimeout' =>
          /\ PrefixThenError(delivered', fGot')
          /\ TimeoutEndsLive => (pPc' = "closed" /\ delivered' = fGot')]_vars

\* C39 witness: the wrapper received two events, delivered the first, dropped
\* the second on expiry and delivered its own Error instead
C39_Witness ==
    /\ HasTimeout /\ Len(fGot) = 2 /\ fPc = "closed"
    /\ delivered = <<fGot[1], ErrorEvent(CtxErr("deadline"))>>
    /\ delivered[2] # fGot[2]

-----------------------------------------------------------------------------
(* Claims about Stream against Complete, checked under SpecStream *)

\* the assistant content of a Response: that of the first choice's message,
\* or of its delta when it has no message
RespContent(r) ==
    IF r.choices = <<>> THEN <<>>
    ELSE IF r.choices[1].message.present THEN r.choices[1].message.content
    ELSE r.choices[1].delta.content

\* the tool calls of a Response: id, name and arguments of each
RespToolCalls(r) ==
    IF r.choices = <<>> THEN <<>>
    ELSE LET tcs == IF r.choices[1].message.present THEN r.choices[1].message.toolCalls
                    ELSE r.choices[1].delta.toolCalls
         IN  [j \in 1..Len(tcs) |-> <<tcs[j].id, tcs[j].name, tcs[j].args>>]

RespFinish(r) == IF r.choices = <<>> THEN "" ELSE r.choices[1].finish

\* C40: the Response of the Done event of a stream agrees with the Response
\* Complete returns for the same backend reply: same assistant content, same
\* tool calls, same finish reason, same usage.
C40_DoneAgreesWithComplete ==
    \A i \in 1..Len(delivered) :
        delivered[i].type = "Done" =>
            LET done == delivered[i].resp
                complete == adapterComplete(bProto)
            IN  /\ RespContent(done) = RespContent(complete)
                /\ RespToolCalls(done) = RespToolCalls(complete)
                /\ RespFinish(done) = RespFinish(complete)
                /\ done.usage = complete.usage

====
